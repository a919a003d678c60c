--------------------------- MODULE RpcLifeProofs ----------------------------
(***************************************************************************)
(* The life of an Rpc in RpcService, from the request for a call to its    *)
(* removal: LifeInv and RemovalInv are invariants.                         *)
(***************************************************************************)
EXTENDS RpcServiceProofs

-----------------------------------------------------------------------------
(* Event queues *)

\* A step of an event thread leaves all events but the one it handles.
LEMMA OtherEventsStay ==
  ASSUME TagInv, TypeOK', NEW q \in EventQueues, event_queue[q] # <<>>,
         PopAndPush(q, Head(event_queue[q]).rpc), UNCHANGED queue,
         NEW r2 \in Rpcs, NEW e, InQueue(r2, e),
         ~(r2 = Head(event_queue[q]).rpc /\ e = Head(event_queue[q]).event)
  PROVE InQueue(r2, e)'
<1>1. PICK i \in 1..Len(event_queue[queue[r2]]) :
        /\ event_queue[queue[r2]][i].rpc = r2
        /\ event_queue[queue[r2]][i].event = e
  BY Zenon DEF InQueue
<1>2. PICK q2 \in EventQueues : q2 = queue[r2]
  BY DEF TagInv, TypeOK
<1>3. Head(event_queue[q]) = event_queue[q][1]
  BY HeadOfQueue, Zenon
<1>4. i > Shift(q2, q)
  <2>1. CASE q2 = q
    <3>1. i # 1
      BY <1>1, <1>2, <1>3, <2>1, Zenon
    <3>2. i \in Nat /\ i >= 1
      <4>1. event_queue[q2] \in Seq(QueuedEvent)
        BY DEF TagInv, TypeOK
      <4>2. Len(event_queue[q2]) \in Nat
        BY <4>1
      <4>3. QED
        BY <1>1, <1>2, <4>2
    <3>3. QED
      BY <2>1, <3>1, <3>2 DEF Shift
  <2>2. CASE q2 # q
    BY <1>1, <1>2, <2>2 DEF Shift
  <2>3. QED
    BY <2>1, <2>2
<1>5. /\ i - Shift(q2, q) \in 1..Len(event_queue'[q2])
      /\ event_queue'[q2][i - Shift(q2, q)] = event_queue[q2][i]
  BY <1>1, <1>2, <1>4, Zenon DEF PopAndPush
<1>6. QED
  BY <1>1, <1>2, <1>5, Zenon DEF InQueue

\* What is behind the pushed events of a step was in the queue before.
LEMMA OldEvents ==
  ASSUME NEW q \in EventQueues, NEW r \in Rpcs, PopAndPush(q, r),
         NEW q2 \in EventQueues, NEW i \in 1..Len(event_queue'[q2]),
         event_queue'[q2][i].event \in CqEvent
  PROVE /\ i + Shift(q2, q) \in 1..Len(event_queue[q2])
        /\ event_queue'[q2][i] = event_queue[q2][i + Shift(q2, q)]
BY Zenon DEF PopAndPush, CqEvent

LEMMA AppendPushes ==
  ASSUME TypeOK, NEW r \in Rpcs, NEW ev \in QueuedEvent, ev.rpc = r,
         event_queue' = [event_queue EXCEPT ![queue[r]] = Append(@, ev)]
  PROVE /\ Pushed(r, ev.event)
        /\ \A q \in EventQueues : \A i \in 1..Len(event_queue'[q]) :
             i \notin 1..Len(event_queue[q]) => event_queue'[q][i] = ev
<1>1. PICK p \in EventQueues : p = queue[r]
  BY DEF TypeOK
<1>2. \A q \in EventQueues : /\ event_queue[q] \in Seq(QueuedEvent)
                             /\ Len(event_queue[q]) \in Nat
  BY DEF TypeOK
<1>3. /\ event_queue'[p] = Append(event_queue[p], ev)
      /\ \A q \in EventQueues : q # p => event_queue'[q] = event_queue[q]
  BY <1>1, Zenon DEF TypeOK
<1>4. /\ Len(event_queue'[p]) = Len(event_queue[p]) + 1
      /\ \A i \in 1..Len(event_queue[p]) :
           event_queue'[p][i] = event_queue[p][i]
      /\ event_queue'[p][Len(event_queue[p]) + 1] = ev
  BY <1>2, <1>3
<1>5. ASSUME NEW q \in EventQueues
      PROVE /\ \A i \in 1..Len(event_queue[q]) :
                 /\ i \in 1..Len(event_queue'[q])
                 /\ event_queue'[q][i] = event_queue[q][i]
            /\ \A i \in 1..Len(event_queue'[q]) :
                 i \notin 1..Len(event_queue[q]) =>
                   /\ q = p
                   /\ event_queue'[q][i].rpc = r
                   /\ event_queue'[q][i].event = ev.event
                   /\ event_queue'[q][i] = ev
                   /\ \A j \in 1..Len(event_queue[q]) : j < i
  <2>1. CASE q = p
    BY <1>2, <1>4, <2>1
  <2>2. CASE q # p
    BY <1>3, <2>2, Zenon
  <2>3. QED
    BY <2>1, <2>2, Zenon
<1>6. Len(event_queue[p]) + 1 \in 1..Len(event_queue'[p])
  BY <1>2, <1>4
<1>7. \E i \in 1..Len(event_queue'[queue[r]]) :
        /\ event_queue'[queue[r]][i].rpc = r
        /\ event_queue'[queue[r]][i].event = ev.event
  BY <1>1, <1>4, <1>6, Zenon
<1>8. QED
  BY <1>1, <1>5, <1>7, ZenonT(40) DEF Pushed

\* The push of a Writer.
LEMMA NotifyIsPushed ==
  ASSUME TypeOK, NEW r \in Rpcs,
         event_queue' = [event_queue EXCEPT ![queue[r]] =
                           @ \o WriteNeeded(r, <<"MSG">>)]
  PROVE Pushed(r, "WRITE_NEEDED")
<1> DEFINE new == WriteNeeded(r, <<"MSG">>)
<1>1. <<"MSG">> \in Seq(SendItem) /\ Len(<<"MSG">>) = 1
  BY DEF SendItem
<1>2. /\ new \in Seq(QueuedEvent)
      /\ Len(new) = 1
  <2>1. new \in Seq(QueuedEvent) /\ Len(new) = Len(<<"MSG">>)
    BY <1>1, WriteNeededEvents, Zenon
  <2>2. QED
    BY <1>1, <2>1, Zenon
<1> HIDE DEF new
<1>3. PICK p \in EventQueues : p = queue[r]
  BY DEF TypeOK
<1>4. event_queue[p] \in Seq(QueuedEvent)
  BY DEF TypeOK
<1>5. /\ event_queue'[p] = event_queue[p] \o new
      /\ \A q \in EventQueues : q # p => event_queue'[q] = event_queue[q]
  BY <1>3, Zenon DEF TypeOK, new
<1>6. /\ Len(event_queue[p]) \in Nat
      /\ Len(event_queue'[p]) = Len(event_queue[p]) + 1
  <2>1. /\ Len(event_queue[p]) \in Nat
        /\ Len(event_queue[p] \o new) = Len(event_queue[p]) + Len(new)
    BY <1>2, <1>4, Concat, Zenon
  <2>2. QED
    BY <1>2, <1>5, <2>1, Zenon
<1>7. Len(event_queue[p]) + 1 \in 1..Len(event_queue'[p])
  BY <1>6
<1>8. \A q \in EventQueues :
        /\ \A i \in 1..Len(event_queue'[q]) :
             \/ /\ q = queue[r]
                /\ event_queue'[q][i].rpc = r
                /\ event_queue'[q][i].event = "WRITE_NEEDED"
             \/ /\ i \in 1..Len(event_queue[q])
                /\ event_queue'[q][i] = event_queue[q][i]
        /\ \A i \in 1..Len(event_queue[q]) :
             /\ i \in 1..Len(event_queue'[q])
             /\ event_queue'[q][i] = event_queue[q][i]
  BY NotifyPushes, Zenon
<1>9. \A q \in EventQueues : \A i \in 1..Len(event_queue'[q]) :
        i \notin 1..Len(event_queue[q]) =>
          \A j \in 1..Len(event_queue[q]) : j < i
  <2> SUFFICES ASSUME NEW q \in EventQueues, NEW i \in 1..Len(event_queue'[q]),
                      i \notin 1..Len(event_queue[q]),
                      NEW j \in 1..Len(event_queue[q])
               PROVE j < i
    BY Zenon
  <2>1. Len(event_queue[q]) \in Nat
    BY DEF TypeOK
  <2>2. QED
    BY <2>1
<1>10. ~(Len(event_queue[p]) + 1 \in 1..Len(event_queue[p]))
  BY <1>6
<1>11. /\ event_queue'[p][Len(event_queue[p]) + 1].rpc = r
       /\ event_queue'[p][Len(event_queue[p]) + 1].event = "WRITE_NEEDED"
  BY <1>7, <1>8, <1>10, Zenon
<1>12. \E i \in 1..Len(event_queue'[queue[r]]) :
         /\ event_queue'[queue[r]][i].rpc = r
         /\ event_queue'[queue[r]][i].event = "WRITE_NEEDED"
  BY <1>3, <1>7, <1>11, Zenon
<1>13. QED
  BY <1>8, <1>9, <1>12, Zenon DEF Pushed

LEMMA PushKeepsEvents ==
  ASSUME TypeOK, NEW r, NEW e, Pushed(r, e), UNCHANGED queue,
         NEW r2 \in Rpcs, NEW e2, InQueue(r2, e2)
  PROVE InQueue(r2, e2)'
<1>1. queue[r2] \in EventQueues
  BY DEF TypeOK
<1>2. QED
  BY <1>1, Zenon DEF Pushed, InQueue

-----------------------------------------------------------------------------
(* Steps of event threads *)

\* What HandleSendQueue starts, and what it needs for that.
LEMMA SendQueueLife ==
  ASSUME TypeOK, NEW r \in Rpcs, NEW p \in SUBSET CqEvent, NEW t,
         HandleSendQueue(r, p, t)
  PROVE /\ send_queue[r] = <<>> => send_queue' = send_queue
        /\ \A e \in {"WRITE", "FINISH"} :
             e \in pending'[r] => e \in p \/ send_queue[r] # <<>>
<1>1. CASE ~CanSend(r, p)
  <2>1. pending' = [pending EXCEPT ![r] = p] /\ send_queue' = send_queue
    BY <1>1, Zenon DEF HandleSendQueue
  <2>2. pending'[r] = p
    BY <2>1, Zenon DEF TypeOK
  <2>3. QED
    BY <2>1, <2>2, Zenon
<1>2. CASE CanSend(r, p)
  BY <1>2, Zenon DEF CanSend
<1>3. QED
  BY <1>1, <1>2, Zenon

LEMMA EventLife ==
  ASSUME TypeOK, NEW q \in EventQueues, EventStep(q)
  PROVE LifeEffects(q)
<1> DEFINE ev == Head(event_queue[q])
           r == ev.rpc
<1>1. event_queue[q] # <<>>
  BY Zenon DEF EventStep, RefuseConnection, AcceptConnection, HandleRequest,
         HandleReadsDone, HandleWrite, HandleFinishOrDone, IgnoreStaleEvent,
         NextEventIn
<1>2. r \in Rpcs /\ pending[r] \in SUBSET CqEvent
  BY <1>1, HeadType, Zenon DEF TypeOK
\* The effects on an Rpc that starts nothing, or only a READ.
<1>3. /\ pending' = [pending EXCEPT ![r] = @ \ {ev.event}]
           => \A e \in {"WRITE", "FINISH"} :
                e \in pending'[r] => e \in pending[r]
      /\ pending' = [pending EXCEPT ![r] = (@ \ {ev.event}) \cup {"READ"}]
           => \A e \in {"WRITE", "FINISH"} :
                e \in pending'[r] => e \in pending[r]
      /\ pending' = [pending EXCEPT ![r] = (@ \ {ev.event}) \cup {"READ"}]
           => IsAnyEventPending(pending'[r])
  <2>1. ASSUME NEW S, pending' = [pending EXCEPT ![r] = S]
        PROVE pending'[r] = S
    BY <1>2, <2>1, Zenon DEF TypeOK
  <2>2. QED
    BY <2>1, Zenon DEF IsAnyEventPending
<1>4. CASE RefuseConnection(q)
  <2>1. /\ ev.event = "NEW_CONNECTION" /\ Alive(r)
        /\ active' = active \ {r} /\ handler' = handler
        /\ send_queue' = send_queue
        /\ pending' = [pending EXCEPT ![r] = @ \ {ev.event}]
    BY <1>4, Zenon DEF RefuseConnection, NextEventIn
  <2>2. call' = call \/ call' = [call EXCEPT ![r] = "over"]
    <3>1. call' = [call EXCEPT ![r] = IF ev.ok THEN "over" ELSE @]
      BY <1>4, Zenon DEF RefuseConnection
    <3>2. [call EXCEPT ![r] = call[r]] = call
      BY <1>2 DEF TypeOK
    <3>3. QED
      BY <3>1, <3>2, Zenon
  <2>3. QED
    BY <1>3, <2>1, <2>2, Zenon DEF LifeEffects
<1>5. CASE AcceptConnection(q)
  <2>1. ev.event = "NEW_CONNECTION" /\ Alive(r) /\ call' = call
    BY <1>5, Zenon DEF AcceptConnection, NextEventIn
  <2>2. CASE ev.ok /\ StreamsRequests(r)
    <3>1. /\ handler' = [handler EXCEPT ![r] = "reading"]
          /\ pending' = [pending EXCEPT ![r] = (@ \ {ev.event}) \cup {"READ"}]
          /\ active' = active
      BY <1>5, <2>2, Zenon DEF AcceptConnection, OnConnection, StartOp
    <3>2. handler'[r] = "reading"
      BY <1>2, <3>1, Zenon DEF TypeOK
    <3>3. QED
      BY <1>3, <2>1, <2>2, <3>1, <3>2, Zenon DEF LifeEffects
  <2>3. CASE ev.ok /\ ~StreamsRequests(r)
    <3>1. /\ handler' = [handler EXCEPT ![r] = "reads_done"]
          /\ pending' = [pending EXCEPT ![r] = @ \ {ev.event}]
          /\ active' = active
      BY <1>5, <2>3, Zenon DEF AcceptConnection, OnConnection
    <3>2. handler'[r] = "reads_done"
      BY <1>2, <3>1, Zenon DEF TypeOK
    <3>3. QED
      BY <1>3, <2>1, <2>3, <3>1, <3>2, Zenon DEF LifeEffects
  <2>4. CASE ~ev.ok
    <3>1. /\ active' = active \ {r} /\ handler' = handler
          /\ send_queue' = send_queue
          /\ pending' = [pending EXCEPT ![r] = @ \ {ev.event}]
      BY <1>5, <2>4, Zenon DEF AcceptConnection
    <3>2. QED
      BY <1>3, <2>1, <3>1, Zenon DEF LifeEffects
  <2>5. QED
    BY <2>2, <2>3, <2>4, Zenon
<1>6. CASE HandleRequest(q)
  <2>1. /\ ev.event = "READ" /\ Alive(r) /\ call' = call
        /\ handler' = handler /\ active' = active /\ relisten' = relisten
        /\ pending' = [pending EXCEPT ![r] = (@ \ {ev.event}) \cup {"READ"}]
    BY <1>6, Zenon DEF HandleRequest, NextEventIn, StartOp
  <2>2. QED
    BY <1>3, <2>1, Zenon DEF LifeEffects
<1>7. CASE HandleReadsDone(q)
  <2>1. /\ ev.event = "READ" /\ Alive(r) /\ call' = call
        /\ handler' = [handler EXCEPT ![r] = "reads_done"]
        /\ relisten' = relisten
        /\ pending' = [pending EXCEPT ![r] = @ \ {ev.event}]
        /\ RemoveIfNotPending(r)
    BY <1>7, Zenon DEF HandleReadsDone, NextEventIn
  <2>2. handler'[r] = "reads_done"
    BY <1>2, <2>1, Zenon DEF TypeOK
  <2>3. QED
    BY <1>3, <2>1, <2>2, Zenon DEF LifeEffects, RemoveIfNotPending
<1>8. CASE HandleWrite(q)
  <2>1. /\ ev.event \in {"WRITE", "WRITE_NEEDED"} /\ Alive(r) /\ call' = call
        /\ handler' = handler /\ relisten' = relisten
        /\ HandleSendQueue(r, pending[r] \ {ev.event}, TagsAfter(ev))
        /\ RemoveIfNotPending(r)
    BY <1>8, Zenon DEF HandleWrite, NextEventIn
  <2>2. pending[r] \ {ev.event} \in SUBSET CqEvent
    BY <1>2, Zenon
  <2>3. /\ send_queue[r] = <<>> => send_queue' = send_queue
        /\ \A e \in {"WRITE", "FINISH"} :
             e \in pending'[r]
               => e \in pending[r] \ {ev.event} \/ send_queue[r] # <<>>
    BY <1>2, <2>1, <2>2, SendQueueLife, Zenon
  <2>4. ev.event # "NEW_CONNECTION"
    BY <2>1
  <2>5. QED
    BY <2>1, <2>3, <2>4, Zenon DEF LifeEffects, RemoveIfNotPending
<1>9. CASE HandleFinishOrDone(q)
  <2>1. /\ ev.event \in {"FINISH", "DONE"} /\ Alive(r) /\ call' = call
        /\ handler' = handler /\ relisten' = relisten
        /\ send_queue' = send_queue
        /\ pending' = [pending EXCEPT ![r] = @ \ {ev.event}]
        /\ RemoveIfNotPending(r)
    BY <1>9, Zenon DEF HandleFinishOrDone, NextEventIn
  <2>2. ev.event # "NEW_CONNECTION"
    BY <2>1
  <2>3. QED
    BY <1>3, <2>1, <2>2, Zenon DEF LifeEffects, RemoveIfNotPending
<1>10. CASE IgnoreStaleEvent(q)
  <2>1. /\ ev.event = "WRITE_NEEDED" /\ ~Alive(r)
        /\ UNCHANGED <<active, handler, pending, send_queue, relisten, call>>
    BY <1>10, Zenon DEF IgnoreStaleEvent, NextEventIn, rpcVars, grpcVars
  <2>2. active \ {r} = active
    BY <2>1, Zenon DEF Alive
  <2>3. ev.event \notin CqEvent /\ ev.event # "NEW_CONNECTION"
    BY <2>1 DEF CqEvent
  <2>4. QED
    BY <2>1, <2>2, <2>3, Zenon DEF LifeEffects
<1>11. QED
  BY <1>4, <1>5, <1>6, <1>7, <1>8, <1>9, <1>10, Zenon DEF EventStep

\* A step that does not touch an Rpc preserves its life.
LEMMA UntouchedRpc ==
  ASSUME NEW r \in Rpcs, RpcLife(r),
         pending'[r] = pending[r], handler'[r] = handler[r],
         call'[r] = call[r], send_queue'[r] = send_queue[r],
         \A e \in CqEvent : tag'[r][e] = tag[r][e],
         \A e \in CqEvent : InQueue(r, e) => InQueue(r, e)',
         r \in active' <=> r \in active,
         r \in 1..created' <=> r \in 1..created,
         pending[r] \subseteq CqEvent
  PROVE RpcLife(r)'
<1>1. "NEW_CONNECTION" \in CqEvent /\ "DONE" \in CqEvent
  BY DEF CqEvent
<1>2. /\ \A e \in pending'[r] : tag'[r][e] # "idle"
      /\ \A e \in CqEvent : tag'[r][e] = "queued" => InQueue(r, e)'
  BY Zenon DEF RpcLife
<1>3. QED
  BY <1>1, <1>2, Zenon DEF RpcLife

\* What the head of a queue says about its Rpc.
LEMMA HeadLife ==
  ASSUME TagInv, LifeInv, NEW q \in EventQueues, event_queue[q] # <<>>
  PROVE LET ev == Head(event_queue[q]) r == ev.rpc IN
        /\ ev.event \in CqEvent => ev.event \in pending[r]
        /\ ev.event = "NEW_CONNECTION"
             => /\ handler[r] = "null"
                /\ "DONE" \in pending[r]
                /\ ev.ok => call[r] # "none"
        /\ ev.event = "READ" => handler[r] = "reading"
        /\ ev.event = "DONE" => "NEW_CONNECTION" \notin pending[r]
<1> DEFINE ev == Head(event_queue[q])
           r == ev.rpc
<1>1. /\ 1 \in 1..Len(event_queue[q])
      /\ ev = event_queue[q][1]
      /\ r \in Rpcs
      /\ queue[r] = q
      /\ ev.event \in CqEvent => tag[r][ev.event] = "queued"
  BY HeadOfQueue, Zenon
<1>2. RpcLife(r) /\ QueueLife(q)
  BY <1>1, Zenon DEF LifeInv
<1>3. /\ tag[r] \in [CqEvent -> TagState]
      /\ handler[r] \in {"null", "reading", "reads_done"}
  BY <1>1 DEF TagInv, TypeOK
<1>4. ev.event \in CqEvent => ev.event \in pending[r]
  BY <1>1, Zenon DEF TagInv, UsedTagsArePending
<1>5. "NEW_CONNECTION" \in CqEvent /\ "READ" \in CqEvent /\ "DONE" \in CqEvent
  BY DEF CqEvent
<1>6. ASSUME ev.event = "NEW_CONNECTION"
      PROVE /\ handler[r] = "null"
            /\ "DONE" \in pending[r]
            /\ ev.ok => call[r] # "none"
  <2>1. "NEW_CONNECTION" \in pending[r]
    BY <1>4, <1>5, <1>6, Zenon
  <2>2. handler[r] = "null" /\ "DONE" \in pending[r]
    BY <1>2, <2>1, Zenon DEF RpcLife
  <2>3. ev.ok => call[r] # "none"
    BY <1>1, <1>2, <1>6, Zenon DEF QueueLife
  <2>4. QED
    BY <2>2, <2>3, Zenon
<1>7. ASSUME ev.event = "READ" PROVE handler[r] = "reading"
  <2>1. "READ" \in pending[r] /\ tag[r]["READ"] = "queued"
    BY <1>1, <1>4, <1>5, <1>7, Zenon
  <2>2. handler[r] # "null"
    BY <1>2, <2>1, Zenon DEF RpcLife
  <2>3. handler[r] # "reads_done"
    BY <1>1, <2>1, Zenon DEF TagInv, ReadsDoneIsFinal
  <2>4. QED
    BY <1>3, <2>2, <2>3
<1>8. ASSUME ev.event = "DONE", "NEW_CONNECTION" \in pending[r] PROVE FALSE
  <2>1. tag[r]["DONE"] = "queued"
    BY <1>1, <1>5, <1>8, Zenon
  <2>2. tag[r]["NEW_CONNECTION"] # "idle"
    BY <1>2, <1>8, Zenon DEF RpcLife
  <2>3. tag[r]["NEW_CONNECTION"] \notin {"started", "ok", "failed"}
    BY <1>2, <2>1, Zenon DEF RpcLife
  <2>4. tag[r]["NEW_CONNECTION"] = "queued"
    BY <1>3, <1>5, <2>2, <2>3 DEF TagState
  <2>5. InQueue(r, "NEW_CONNECTION")
    BY <1>2, <1>5, <2>4, Zenon DEF RpcLife
  <2>6. PICK i \in 1..Len(event_queue[q]) :
          /\ event_queue[q][i].rpc = r
          /\ event_queue[q][i].event = "NEW_CONNECTION"
    BY <1>1, <2>5, Zenon DEF InQueue
  <2>7. i < 1
    BY <1>1, <1>2, <1>8, <2>6, Zenon DEF QueueLife
  <2>8. Len(event_queue[q]) \in Nat
    BY DEF TagInv, TypeOK
  <2>9. QED
    BY <2>7, <2>8
<1>9. QED
  BY <1>4, <1>6, <1>7, <1>8, Zenon

\* What a step does to the flags and tags if it handles the event ev of r and
\* starts the operations ops.
FlagsAfter(r, ev, ops) ==
  /\ \A e \in CqEvent :
       /\ e \in ops => tag'[r][e] = "started"
       /\ e \notin ops /\ e = ev.event => tag'[r][e] = "idle"
       /\ e \notin ops /\ e # ev.event => tag'[r][e] = tag[r][e]
  /\ pending'[r] = (pending[r] \ {ev.event}) \cup ops
  /\ \A r2 \in Rpcs \ {r} : tag'[r2] = tag[r2] /\ pending'[r2] = pending[r2]

\* The flags and tags after an event has been handled.
LEMMA HandledFlags ==
  ASSUME TypeOK, NEW q \in EventQueues, NEW ops \in SUBSET CqEvent,
         Handled(q, ops), NEW ev \in QueuedEvent, ev = Head(event_queue[q]),
         NEW r \in Rpcs, r = ev.rpc
  PROVE FlagsAfter(r, ev, ops)
<1>1. tag' = [tag EXCEPT ![r] = [e \in CqEvent |->
                                   IF e \in ops THEN "started"
                                   ELSE TagsAfter(ev)[e]]]
  BY Zenon DEF Handled
<1>2. tag \in [Rpcs -> [CqEvent -> TagState]]
  BY Zenon DEF TypeOK
<1>3. pending' = [pending EXCEPT ![r] = (@ \ {ev.event}) \cup ops]
  BY Zenon DEF Handled
<1>4. pending \in [Rpcs -> SUBSET CqEvent]
  BY Zenon DEF TypeOK
<1>5. /\ \A e \in CqEvent :
           /\ e \in ops => tag'[r][e] = "started"
           /\ e \notin ops /\ e = ev.event => tag'[r][e] = "idle"
           /\ e \notin ops /\ e # ev.event => tag'[r][e] = tag[r][e]
  BY <1>1, <1>2, Zenon DEF TagsAfter
<1>6. \A r2 \in Rpcs \ {r} : tag'[r2] = tag[r2] /\ pending'[r2] = pending[r2]
  BY <1>1, <1>2, <1>3, <1>4, Zenon
<1>7. QED
  BY <1>3, <1>4, <1>5, <1>6, Zenon DEF FlagsAfter

\* An event thread keeps the life of the Rpc of the event it handles.
LEMMA HandledRpcLife ==
  ASSUME TagInv, LifeInv, TagInv', NEW q \in EventQueues, EventEffects(q),
         LifeEffects(q), NEW r \in Rpcs, r = Head(event_queue[q]).rpc
  PROVE RpcLife(r)'
<1>0. event_queue[q] # <<>>
  BY Zenon DEF EventEffects
<1>1. PICK ops \in SUBSET CqEvent : Handled(q, ops)
  BY Zenon DEF EventEffects
<1>2. PICK ev \in QueuedEvent : ev = Head(event_queue[q])
  BY <1>0, HeadType, Zenon DEF TagInv
<1>3. r = ev.rpc
  BY <1>2, Zenon
<1>4. /\ ev.event \in CqEvent => tag[r][ev.event] = "queued"
      /\ r \in 1..created
  BY <1>0, <1>2, <1>3, HeadOfQueue, Zenon
<1>5. TypeOK /\ RpcLife(r)
  BY Zenon DEF TagInv, LifeInv
<1>6. /\ \A e \in CqEvent :
           /\ e \in ops => tag'[r][e] = "started"
           /\ e \notin ops /\ e = ev.event => tag'[r][e] = "idle"
           /\ e \notin ops /\ e # ev.event => tag'[r][e] = tag[r][e]
      /\ pending'[r] = (pending[r] \ {ev.event}) \cup ops
  <2>1. FlagsAfter(r, ev, ops)
    BY <1>1, <1>2, <1>3, <1>5, HandledFlags, Zenon
  <2>2. QED
    BY <2>1, Zenon DEF FlagsAfter
<1>7. "NEW_CONNECTION" \in CqEvent /\ "DONE" \in CqEvent /\ "READ" \in CqEvent
  BY DEF CqEvent
<1>8. "NEW_CONNECTION" \notin ops /\ "DONE" \notin ops
  <2>1. ops \subseteq {"READ", "WRITE", "FINISH"}
    BY <1>1, Zenon DEF Handled
  <2>2. QED
    BY <2>1
<1>9. /\ created' = created /\ queue' = queue
      /\ PopAndPush(q, r)
  BY <1>1, <1>2, <1>3, Zenon DEF EventEffects, Handled
<1>10. /\ ev.event \in CqEvent => ev.event \in pending[r]
       /\ ev.event = "NEW_CONNECTION"
            => /\ handler[r] = "null"
               /\ "DONE" \in pending[r]
               /\ ev.ok => call[r] # "none"
       /\ ev.event = "READ" => handler[r] = "reading"
       /\ ev.event = "DONE" => "NEW_CONNECTION" \notin pending[r]
  BY <1>0, <1>2, <1>3, HeadLife, Zenon
\* LifeEffects, with names.
<1>11. /\ ev.event \in CqEvent => Alive(r)
       /\ \/ /\ ev.event = "NEW_CONNECTION"
             /\ \/ active' = active /\ handler'[r] # "null" /\ ev.ok
                \/ active' = active \ {r} /\ handler' = handler
          \/ /\ ev.event # "NEW_CONNECTION"
             /\ handler'[r] \in {handler[r], "reads_done"}
             /\ active' = IF IsAnyEventPending(pending'[r]) THEN active
                          ELSE active \ {r}
       /\ \/ send_queue[r] = <<>> /\ send_queue' = send_queue
          \/ send_queue[r] # <<>>
          \/ ev.event = "READ"
          \/ handler'[r] # "null"
       /\ "WRITE" \in pending'[r]
            => "WRITE" \in pending[r] \/ send_queue[r] # <<>>
       /\ "FINISH" \in pending'[r]
            => "FINISH" \in pending[r] \/ send_queue[r] # <<>>
  BY <1>2, <1>3, Zenon DEF LifeEffects
<1>12. /\ call[r] # "none" => call'[r] # "none"
       /\ call[r] = "over" => call'[r] = "over"
  <2>1. call' = call \/ call' = [call EXCEPT ![r] = "over"]
    BY <1>2, <1>3, Zenon DEF LifeEffects
  <2>2. ASSUME call' = [call EXCEPT ![r] = "over"] PROVE call'[r] = "over"
    BY <1>5, <2>2, Zenon DEF TypeOK
  <2>3. QED
    BY <2>1, <2>2
<1>13. handler'[r] = "null" => handler[r] = "null"
  BY <1>10, <1>11, Zenon
<1>14. handler[r] = "null" /\ handler'[r] # "null"
         => ev.event = "NEW_CONNECTION" /\ ev.ok /\ active' = active
  <2>1. handler'[r] # handler[r] => ev.event \in {"NEW_CONNECTION", "READ"}
    BY <1>1, <1>2, <1>3, Zenon DEF Handled
  <2>2. "reading" # "null"
    OBVIOUS
  <2>3. QED
    BY <1>10, <1>11, <2>1, <2>2, Zenon
<1>20. \A e \in pending'[r] : tag'[r][e] # "idle"
  <2>1. pending[r] \subseteq CqEvent /\ "started" # "idle"
    BY <1>5 DEF TypeOK
  <2>2. QED
    BY <1>5, <1>6, <2>1, ZenonT(40) DEF RpcLife
<1>21. \A e \in CqEvent : tag'[r][e] = "queued" => InQueue(r, e)'
  <2> SUFFICES ASSUME NEW e \in CqEvent, tag'[r][e] = "queued"
               PROVE InQueue(r, e)'
    BY Zenon
  <2>1. e # ev.event /\ tag[r][e] = "queued"
    BY <1>6
  <2>2. InQueue(r, e)
    BY <1>5, <2>1, Zenon DEF RpcLife
  <2>3. QED
    BY <1>0, <1>2, <1>3, <1>9, <2>1, <2>2, OtherEventsStay, Zenon DEF TagInv
<1>22. tag'[r]["NEW_CONNECTION"] \in {"started", "ok", "failed"}
         => tag'[r]["DONE"] = "started"
  <2> SUFFICES ASSUME tag'[r]["NEW_CONNECTION"] \in {"started", "ok", "failed"}
               PROVE tag'[r]["DONE"] = "started"
    BY Zenon
  <2>1. tag[r]["NEW_CONNECTION"] \in {"started", "ok", "failed"}
    BY <1>6, <1>7, <1>8
  <2>2. tag[r]["DONE"] = "started"
    BY <1>5, <2>1, Zenon DEF RpcLife
  <2>3. "DONE" # ev.event
    BY <1>4, <1>7, <2>2
  <2>4. QED
    BY <1>6, <1>7, <1>8, <2>2, <2>3, Zenon
<1>23. "NEW_CONNECTION" \in pending'[r] => "DONE" \in pending'[r]
  <2>1. ASSUME "NEW_CONNECTION" \in pending'[r] PROVE "DONE" \in pending'[r]
    <3>1. "NEW_CONNECTION" \in pending[r]
      BY <1>6, <1>8, <2>1, Zenon
    <3>2. "DONE" \in pending[r] /\ "DONE" # ev.event
      BY <1>5, <1>10, <3>1, Zenon DEF RpcLife
    <3>3. QED
      BY <1>6, <3>2, Zenon
  <2>2. QED
    BY <2>1, Zenon
<1>24. r \in active' => IsAnyEventPending(pending'[r])
  <2>1. CASE ev.event = "NEW_CONNECTION"
    <3>1. "DONE" \in pending'[r]
      BY <1>6, <1>10, <2>1
    <3>2. QED
      BY <3>1, Zenon DEF IsAnyEventPending
  <2>2. CASE ev.event # "NEW_CONNECTION"
    BY <1>11, <2>2, Zenon
  <2>3. QED
    BY <2>1, <2>2, Zenon
<1>25. (r \in active' /\ handler'[r] = "null")
         => "NEW_CONNECTION" \in pending'[r]
  <2>1. ASSUME r \in active', handler'[r] = "null"
        PROVE "NEW_CONNECTION" \in pending'[r]
    <3>1. ev.event # "NEW_CONNECTION" /\ r \in active /\ handler[r] = "null"
      BY <1>11, <1>13, <2>1, Zenon
    <3>2. "NEW_CONNECTION" \in pending[r]
      BY <1>5, <3>1, Zenon DEF RpcLife
    <3>3. QED
      BY <1>6, <3>1, <3>2, Zenon
  <2>2. QED
    BY <2>1, Zenon
<1>26. handler'[r] # "null"
         => "NEW_CONNECTION" \notin pending'[r] /\ call'[r] # "none"
  <2>1. CASE handler[r] # "null"
    BY <1>5, <1>6, <1>8, <1>12, <2>1, Zenon DEF RpcLife
  <2>2. CASE handler[r] = "null"
    BY <1>6, <1>8, <1>10, <1>12, <1>14, <2>2, Zenon
  <2>3. QED
    BY <2>1, <2>2, Zenon
<1>27. handler'[r] = "null"
         => /\ pending'[r] \subseteq {"NEW_CONNECTION", "DONE"}
            /\ send_queue'[r] = <<>>
  <2> SUFFICES ASSUME handler'[r] = "null"
               PROVE /\ pending'[r] \subseteq {"NEW_CONNECTION", "DONE"}
                     /\ send_queue'[r] = <<>>
    BY Zenon
  <2>1. /\ handler[r] = "null"
        /\ pending[r] \subseteq {"NEW_CONNECTION", "DONE"}
        /\ send_queue[r] = <<>>
    BY <1>5, <1>13, Zenon DEF RpcLife
  <2>2. ev.event # "READ"
    BY <1>10, <2>1
  <2>3. send_queue'[r] = <<>>
    BY <1>11, <2>1, <2>2, Zenon
  <2>4. "WRITE" \notin pending'[r] /\ "FINISH" \notin pending'[r]
    BY <1>11, <2>1
  <2>5. "READ" \notin ops
    <3>1. "READ" \in ops => ev.event = "READ" \/ handler'[r] = "reading"
      BY <1>1, <1>2, <1>3, Zenon DEF Handled
    <3>2. QED
      BY <2>2, <3>1
  <2>6. ops = {}
    <3>1. ops \subseteq {"READ", "WRITE", "FINISH"}
      BY <1>1, Zenon DEF Handled
    <3>2. QED
      BY <1>6, <2>4, <2>5, <3>1
  <2>7. QED
    BY <1>6, <2>1, <2>3, <2>6
<1>28. tag'[r]["NEW_CONNECTION"] = "ok" => call'[r] # "none"
  <2>1. tag'[r]["NEW_CONNECTION"] = "ok" => tag[r]["NEW_CONNECTION"] = "ok"
    BY <1>6, <1>7
  <2>2. QED
    BY <1>5, <1>12, <2>1, Zenon DEF RpcLife
<1>29. tag'[r]["DONE"] # "started" => call'[r] = "over"
  <2>1. tag'[r]["DONE"] # "started" => tag[r]["DONE"] # "started"
    <3>1. tag[r]["DONE"] = "started" => "DONE" # ev.event
      BY <1>4, <1>7
    <3>2. QED
      BY <1>6, <1>7, <1>8, <3>1
  <2>2. QED
    BY <1>4, <1>5, <1>12, <2>1, Zenon DEF RpcLife
<1>30. (handler'[r] # "null" /\ r \notin active') => call'[r] = "over"
  <2> SUFFICES ASSUME handler'[r] # "null", r \notin active'
               PROVE call'[r] = "over"
    BY Zenon
  <2>1. CASE r \notin active
    <3>1. handler[r] # "null"
      <4>1. ASSUME handler[r] = "null" PROVE FALSE
        <5>1. Alive(r)
          BY <1>7, <1>11, <1>14, <4>1, Zenon
        <5>2. PICK w \in Writers : writer_rpc[w] = r
          BY <2>1, <5>1, Zenon DEF Alive
        <5>3. r # NoRpc
          BY Sizes, Zenon
        <5>4. QED
          BY <4>1, <5>2, <5>3, Zenon DEF LifeInv, WriterLife
      <4>2. QED
        BY <4>1, Zenon
    <3>2. QED
      BY <1>4, <1>5, <1>12, <2>1, <3>1, Zenon DEF RpcLife
  <2>2. CASE r \in active
    <3>1. ev.event # "NEW_CONNECTION"
      BY <1>10, <1>11, <2>2, Zenon
    <3>2. ~IsAnyEventPending(pending'[r])
      <4>1. active' = IF IsAnyEventPending(pending'[r]) THEN active
                      ELSE active \ {r}
        BY <1>11, <3>1, Zenon
      <4>2. QED
        BY <2>2, <4>1, Zenon
    <3>3. "DONE" \notin pending'[r]
      BY <3>2, Zenon DEF IsAnyEventPending
    <3>4. tag'[r]["DONE"] = "idle"
      BY <1>7, <3>3, Zenon DEF TagInv, UsedTagsArePending
    <3>5. QED
      BY <1>29, <3>4
  <2>3. QED
    BY <2>1, <2>2, Zenon
<1>31. QED
  BY <1>20, <1>21, <1>22, <1>23, <1>24, <1>25, <1>26, <1>27, <1>28, <1>29,
     <1>30, Zenon DEF RpcLife

LEMMA EventPreservesLife ==
  ASSUME TagInv, LifeInv, TagInv', NEW q \in EventQueues, EventEffects(q),
         LifeEffects(q)
  PROVE LifeInv'
<1>0. event_queue[q] # <<>>
  BY Zenon DEF EventEffects
<1>1. PICK ops \in SUBSET CqEvent : Handled(q, ops)
  BY Zenon DEF EventEffects
<1>2. PICK ev \in QueuedEvent : ev = Head(event_queue[q])
  BY <1>0, HeadType, Zenon DEF TagInv
<1>3. PICK r \in Rpcs : r = ev.rpc
  BY <1>0, <1>2, HeadOfQueue, Zenon
<1>4. TypeOK /\ TypeOK'
  BY Zenon DEF TagInv
<1>5. /\ pending'[r] = (pending[r] \ {ev.event}) \cup ops
      /\ \A r2 \in Rpcs \ {r} : tag'[r2] = tag[r2] /\ pending'[r2] = pending[r2]
  <2>1. FlagsAfter(r, ev, ops)
    BY <1>1, <1>2, <1>3, <1>4, HandledFlags, Zenon
  <2>2. QED
    BY <2>1, Zenon DEF FlagsAfter
<1>6. "NEW_CONNECTION" \notin ops
  <2>1. ops \subseteq {"READ", "WRITE", "FINISH"}
    BY <1>1, Zenon DEF Handled
  <2>2. QED
    BY <2>1
<1>7. /\ created' = created /\ queue' = queue
      /\ writer_rpc' = writer_rpc /\ writer_pc' = writer_pc
      /\ PopAndPush(q, r)
      /\ \A r2 \in Rpcs \ {r} : /\ handler'[r2] = handler[r2]
                                /\ send_queue'[r2] = send_queue[r2]
  BY <1>1, <1>2, <1>3, Zenon DEF EventEffects, Handled, writerVars
<1>8. \A r2 \in Rpcs \ {r} : /\ call'[r2] = call[r2]
                             /\ r2 \in active' <=> r2 \in active
  <2>1. call' = call \/ call' = [call EXCEPT ![r] = "over"]
    BY <1>2, <1>3, Zenon DEF LifeEffects
  <2>2. active' = active \/ active' = active \ {r}
    BY <1>2, <1>3, Zenon DEF LifeEffects
  <2>3. call \in [Rpcs -> {"none", "open", "over"}]
    BY <1>4, Zenon DEF TypeOK
  <2>4. QED
    BY <2>1, <2>2, <2>3, Zenon
<1>9. \A r2 \in Rpcs : call[r2] # "none" => call'[r2] # "none"
  <2>1. call' = call \/ call' = [call EXCEPT ![r] = "over"]
    BY <1>2, <1>3, Zenon DEF LifeEffects
  <2>2. ASSUME call' = [call EXCEPT ![r] = "over"] PROVE call'[r] = "over"
    BY <1>4, <2>2, ZenonT(40) DEF TypeOK
  <2>3. QED
    BY <1>8, <2>1, <2>2
<1>10. \A r2 \in Rpcs : handler[r2] # "null" => handler'[r2] # "null"
  <2>1. \/ handler'[r] # "null"
        \/ handler' = handler
        \/ handler'[r] \in {handler[r], "reads_done"}
    BY <1>2, <1>3, Zenon DEF LifeEffects
  <2>2. QED
    BY <1>7, <2>1
<1>11. ASSUME NEW r2 \in Rpcs PROVE RpcLife(r2)'
  <2>1. CASE r2 = r
    BY <1>2, <1>3, <2>1, HandledRpcLife, Zenon
  <2>2. CASE r2 # r
    <3>1. r2 \in Rpcs \ {r}
      BY <2>2
    <3>2. \A e \in CqEvent : InQueue(r2, e) => InQueue(r2, e)'
      BY <1>0, <1>2, <1>3, <1>4, <1>7, <2>2, OtherEventsStay, Zenon
    <3>3. /\ pending[r2] \subseteq CqEvent
          /\ RpcLife(r2)
          /\ r2 \in 1..created' <=> r2 \in 1..created
      BY <1>4, <1>7, Zenon DEF LifeInv, TypeOK
    <3>4. QED
      BY <1>5, <1>7, <1>8, <3>1, <3>2, <3>3, UntouchedRpc, Zenon
  <2>3. QED
    BY <2>1, <2>2, Zenon
<1>12. ASSUME NEW q2 \in EventQueues PROVE QueueLife(q2)'
  <2>1. "NEW_CONNECTION" \in CqEvent /\ "DONE" \in CqEvent
    BY DEF CqEvent
  <2>2. ASSUME NEW i \in 1..Len(event_queue'[q2]),
               NEW j \in 1..Len(event_queue'[q2]),
               event_queue'[q2][i].rpc = event_queue'[q2][j].rpc,
               event_queue'[q2][i].event = "NEW_CONNECTION",
               event_queue'[q2][j].event = "DONE"
        PROVE i < j
    <3>1. /\ i + Shift(q2, q) \in 1..Len(event_queue[q2])
          /\ event_queue'[q2][i] = event_queue[q2][i + Shift(q2, q)]
          /\ j + Shift(q2, q) \in 1..Len(event_queue[q2])
          /\ event_queue'[q2][j] = event_queue[q2][j + Shift(q2, q)]
      BY <1>7, <2>1, <2>2, OldEvents, Zenon
    <3>2. i + Shift(q2, q) < j + Shift(q2, q)
      BY <2>2, <3>1, Zenon DEF LifeInv, QueueLife
    <3>3. Shift(q2, q) \in Int /\ i \in Int /\ j \in Int
      BY DEF Shift
    <3>4. QED
      BY <3>2, <3>3
  <2>3. ASSUME NEW i \in 1..Len(event_queue'[q2]),
               event_queue'[q2][i].event = "NEW_CONNECTION",
               event_queue'[q2][i].ok
        PROVE call'[event_queue'[q2][i].rpc] # "none"
    <3>1. /\ i + Shift(q2, q) \in 1..Len(event_queue[q2])
          /\ event_queue'[q2][i] = event_queue[q2][i + Shift(q2, q)]
      BY <1>7, <2>1, <2>3, OldEvents, Zenon
    <3>2. call[event_queue'[q2][i].rpc] # "none"
      BY <2>3, <3>1, Zenon DEF LifeInv, QueueLife
    <3>3. event_queue'[q2][i].rpc \in Rpcs
      <4>1. event_queue'[q2] \in Seq(QueuedEvent)
        BY <1>4, Zenon DEF TypeOK
      <4>2. event_queue'[q2][i] \in QueuedEvent
        BY <4>1
      <4>3. QED
        BY <4>2 DEF QueuedEvent
    <3>4. QED
      BY <1>9, <3>2, <3>3, Zenon
  <2>4. QED
    BY <2>2, <2>3, Zenon DEF QueueLife
<1>13. ASSUME NEW q2 \in EventQueues PROVE RelistenLife(q2)'
  <2>1. relisten \in [EventQueues -> Rpcs \cup {NoRpc}]
    BY <1>4, Zenon DEF TypeOK
  <2>2. \/ relisten' = relisten
        \/ ev.event = "NEW_CONNECTION" /\ relisten' = [relisten EXCEPT ![q] = r]
    BY <1>2, <1>3, Zenon DEF LifeEffects, EventEffects
  <2>3. CASE relisten'[q2] = relisten[q2]
    <3>1. ASSUME relisten[q2] # NoRpc
          PROVE "NEW_CONNECTION" \notin pending'[relisten[q2]]
      <4>1. PICK x \in Rpcs : x = relisten[q2]
        BY <2>1, <3>1, Zenon
      <4>2. "NEW_CONNECTION" \notin pending[x]
        BY <3>1, <4>1, Zenon DEF LifeInv, RelistenLife
      <4>3. "NEW_CONNECTION" \notin pending'[x]
        BY <1>5, <1>6, <4>2, Zenon
      <4>4. QED
        BY <4>1, <4>3, Zenon
    <3>2. QED
      BY <2>3, <3>1, Zenon DEF RelistenLife
  <2>4. CASE relisten'[q2] = r /\ ev.event = "NEW_CONNECTION"
    <3>1. "NEW_CONNECTION" \notin pending'[r]
      BY <1>5, <1>6, <2>4, Zenon
    <3>2. QED
      BY <2>4, <3>1, Zenon DEF RelistenLife
  <2>5. QED
    BY <2>1, <2>2, <2>3, <2>4, Zenon
<1>14. ASSUME NEW w \in Writers PROVE WriterLife(w)'
  <2>1. ASSUME writer_rpc[w] # NoRpc PROVE handler'[writer_rpc[w]] # "null"
    <3>1. writer_rpc[w] \in Rpcs
      BY <1>4, <2>1, Zenon DEF TypeOK
    <3>2. handler[writer_rpc[w]] # "null"
      BY <2>1, Zenon DEF LifeInv, WriterLife
    <3>3. QED
      BY <1>10, <3>1, <3>2, Zenon
  <2>2. writer_pc[w] # "idle" => writer_rpc[w] # NoRpc
    BY Zenon DEF LifeInv, WriterLife
  <2>3. QED
    BY <1>7, <2>1, <2>2, Zenon DEF WriterLife
<1>15. QED
  BY <1>11, <1>12, <1>13, <1>14, Zenon DEF LifeInv

-----------------------------------------------------------------------------
(* The other steps *)

LEMMA FramePreservesLife ==
  ASSUME TypeOK, LifeInv,
         UNCHANGED <<rpcVars, event_queue, relisten, tag, call, writer_rpc,
                     writer_pc>>
  PROVE LifeInv'
<1>1. /\ created' = created /\ active' = active /\ queue' = queue
      /\ handler' = handler /\ pending' = pending
      /\ send_queue' = send_queue /\ event_queue' = event_queue
      /\ relisten' = relisten /\ tag' = tag /\ call' = call
      /\ writer_rpc' = writer_rpc /\ writer_pc' = writer_pc
  BY Zenon DEF rpcVars
<1>2. ASSUME NEW r \in Rpcs PROVE RpcLife(r)'
  <2>1. RpcLife(r) /\ pending[r] \subseteq CqEvent
    BY Zenon DEF LifeInv, TypeOK
  <2>2. \A e \in CqEvent : InQueue(r, e) => InQueue(r, e)'
    BY <1>1, Zenon DEF InQueue
  <2>3. QED
    BY <1>1, <2>1, <2>2, UntouchedRpc, Zenon
<1>3. ASSUME NEW q \in EventQueues PROVE QueueLife(q)' /\ RelistenLife(q)'
  <2>1. QueueLife(q) /\ RelistenLife(q)
    BY Zenon DEF LifeInv
  <2>2. QED
    BY <1>1, <2>1, Zenon DEF QueueLife, RelistenLife
<1>4. ASSUME NEW w \in Writers PROVE WriterLife(w)'
  BY <1>1, Zenon DEF LifeInv, WriterLife
<1>5. QED
  BY <1>2, <1>3, <1>4, Zenon DEF LifeInv
LEMMA LifeInvInit ==
  ASSUME Init
  PROVE LifeInv
<1>1. ASSUME NEW r \in Rpcs PROVE RpcLife(r)
  <2>1. /\ pending[r] = {} /\ handler[r] = "null" /\ send_queue[r] = <<>>
        /\ \A e \in CqEvent : tag[r][e] = "idle"
        /\ active = {}
    BY <1>1, Zenon DEF Init
  <2>2. ~(r \in 1..created)
    BY DEF Init
  <2>3. "NEW_CONNECTION" \in CqEvent
    BY DEF CqEvent
  <2>4. QED
    BY <2>1, <2>2, <2>3 DEF RpcLife
<1>2. ASSUME NEW q \in EventQueues PROVE QueueLife(q) /\ RelistenLife(q)
  <2>1. event_queue[q] = <<>> /\ relisten[q] = NoRpc
    BY Zenon DEF Init
  <2>2. QED
    BY <2>1 DEF QueueLife, RelistenLife
<1>3. ASSUME NEW w \in Writers PROVE WriterLife(w)
  BY Zenon DEF WriterLife, Init
<1>4. QED
  BY <1>1, <1>2, <1>3, Zenon DEF LifeInv

\* An Rpc that waits for a connection has begun its life.
LEMMA NewRpcLife ==
  ASSUME NEW r \in Rpcs, handler'[r] = "null", send_queue'[r] = <<>>,
         pending'[r] = {"DONE", "NEW_CONNECTION"},
         \A e \in CqEvent : tag'[r][e] = IF e \in {"DONE", "NEW_CONNECTION"}
                                         THEN "started" ELSE "idle"
  PROVE RpcLife(r)'
<1>1. /\ tag'[r]["NEW_CONNECTION"] = "started"
      /\ tag'[r]["DONE"] = "started"
      /\ \A e \in CqEvent : tag'[r][e] # "queued"
  BY DEF CqEvent
<1>2. \A e \in pending'[r] : tag'[r][e] # "idle"
  BY <1>1
<1>3. IsAnyEventPending(pending'[r])
  BY DEF IsAnyEventPending
<1>4. QED
  BY <1>1, <1>2, <1>3 DEF RpcLife

LEMMA StartPreservesLife ==
  ASSUME TagInv, LifeInv, StartServing
  PROVE LifeInv'
<1>1. TypeOK /\ created = 0
  BY Zenon DEF TagInv, StartServing
<1>2. \A r \in Rpcs : ~(r \in 1..created)
  BY <1>1
<1>3. /\ \A r \in Rpcs : /\ pending[r] = {}
                         /\ send_queue[r] = <<>>
                         /\ handler[r] = "null"
      /\ \A r \in Rpcs : \A e \in CqEvent : tag[r][e] = "idle"
      /\ \A q \in EventQueues : relisten[q] = NoRpc
  <2>1. \A q \in EventQueues : relisten[q] # NoRpc => relisten[q] \in Rpcs
    BY <1>1, Zenon DEF TypeOK
  <2>2. \A r \in Rpcs : /\ pending[r] = {}
                         /\ send_queue[r] = <<>>
                         /\ handler[r] = "null"
    BY <1>2, Zenon DEF TagInv, OnlyCreatedRpcs
  <2>3. \A r \in Rpcs : \A e \in CqEvent : tag[r][e] = "idle"
    BY <2>2 DEF TagInv, UsedTagsArePending
  <2>4. \A q \in EventQueues : relisten[q] = NoRpc
    BY <1>2, <2>1, Zenon DEF TagInv, OnlyCreatedRpcs
  <2>5. QED
    BY <2>2, <2>3, <2>4, Zenon
<1>4. ASSUME NEW r \in Rpcs PROVE RpcLife(r)'
  <2>1. CASE r \in Listeners
    <3>1. pending'[r] = {"DONE", "NEW_CONNECTION"}
      BY <2>1, Zenon DEF StartServing
    <3>2. \A e \in CqEvent : tag'[r][e] = IF e \in {"DONE", "NEW_CONNECTION"}
                                          THEN "started" ELSE "idle"
      BY <1>3, <2>1, Zenon DEF StartServing
    <3>3. handler'[r] = "null" /\ send_queue'[r] = <<>>
      BY <1>3, Zenon DEF StartServing
    <3>4. QED
      BY <3>1, <3>2, <3>3, NewRpcLife, Zenon
  <2>2. CASE r \notin Listeners
    <3>1. /\ pending'[r] = pending[r] /\ handler'[r] = handler[r]
          /\ call'[r] = call[r] /\ send_queue'[r] = send_queue[r]
          /\ \A e \in CqEvent : tag'[r][e] = tag[r][e]
          /\ queue'[r] = queue[r] /\ event_queue' = event_queue
      BY <1>4, <2>2, Zenon DEF StartServing
    <3>2. ~(r \in active') /\ ~(r \in 1..created')
      BY <2>2, Zenon DEF StartServing, Listeners
    <3>3. ~(r \in active) /\ ~(r \in 1..created)
      BY <1>1, <1>2, Zenon DEF TypeOK
    <3>4. \A e \in CqEvent : InQueue(r, e) => InQueue(r, e)'
      BY <3>1, Zenon DEF InQueue
    <3>5. pending[r] \subseteq CqEvent /\ RpcLife(r)
      BY <1>1, Zenon DEF TypeOK, LifeInv
    <3>6. QED
      BY <3>1, <3>2, <3>3, <3>4, <3>5, UntouchedRpc, Zenon
  <2>3. QED
    BY <2>1, <2>2, Zenon
<1>5. ASSUME NEW q \in EventQueues PROVE QueueLife(q)' /\ RelistenLife(q)'
  <2>1. event_queue' = event_queue /\ call' = call /\ relisten' = relisten
    BY Zenon DEF StartServing
  <2>2. QueueLife(q)
    BY Zenon DEF LifeInv
  <2>3. QED
    BY <1>3, <2>1, <2>2, ZenonT(30) DEF QueueLife, RelistenLife
<1>6. ASSUME NEW w \in Writers PROVE WriterLife(w)'
  BY Zenon DEF LifeInv, WriterLife, StartServing, writerVars
<1>7. QED
  BY <1>4, <1>5, <1>6, Zenon DEF LifeInv

LEMMA ListenAgainPreservesLife ==
  ASSUME TagInv, LifeInv, NEW q \in EventQueues, ListenAgain(q)
  PROVE LifeInv'
<1>1. TypeOK
  BY Zenon DEF TagInv
<1>2. PICK new \in Rpcs : new = created + 1
  BY <1>1, Sizes DEF ListenAgain, TypeOK, Rpcs
<1>3. /\ created' = new
      /\ \A r \in Rpcs : r # new => (r \in 1..created' <=> r \in 1..created)
      /\ ~(new \in 1..created)
  BY <1>1, <1>2 DEF ListenAgain, TypeOK
<1>4. /\ pending' = [pending EXCEPT ![new] = {"DONE", "NEW_CONNECTION"}]
      /\ tag' = [tag EXCEPT ![new] =
                   [e \in CqEvent |-> IF e \in {"DONE", "NEW_CONNECTION"}
                                      THEN "started" ELSE "idle"]]
      /\ active' = active \cup {new}
      /\ queue' = [queue EXCEPT ![new] = current_event_queue_id']
      /\ relisten' = [relisten EXCEPT ![q] = NoRpc]
  BY <1>2, Zenon DEF ListenAgain, RequestNextMethodInvocation, SetEventQueue
<1>5. /\ handler' = handler /\ send_queue' = send_queue
      /\ event_queue' = event_queue /\ call' = call
      /\ writer_rpc' = writer_rpc /\ writer_pc' = writer_pc
  BY Zenon DEF ListenAgain, writerVars
<1>6. /\ pending \in [Rpcs -> SUBSET CqEvent]
      /\ tag \in [Rpcs -> [CqEvent -> TagState]]
      /\ queue \in [Rpcs -> EventQueues]
      /\ relisten \in [EventQueues -> Rpcs \cup {NoRpc}]
  BY <1>1, Zenon DEF TypeOK
<1>7. ASSUME NEW r \in Rpcs PROVE RpcLife(r)'
  <2>1. CASE r = new
    <3>1. handler[r] = "null" /\ send_queue[r] = <<>>
      BY <1>3, <2>1, Zenon DEF TagInv, OnlyCreatedRpcs
    <3>2. handler'[r] = "null" /\ send_queue'[r] = <<>>
      BY <1>5, <3>1, Zenon
    <3>3. /\ pending'[r] = {"DONE", "NEW_CONNECTION"}
          /\ \A e \in CqEvent : tag'[r][e] = IF e \in {"DONE", "NEW_CONNECTION"}
                                             THEN "started" ELSE "idle"
      BY <1>4, <1>6, <2>1, Zenon
    <3>4. QED
      BY <3>2, <3>3, NewRpcLife, Zenon
  <2>2. CASE r # new
    <3>1. /\ pending'[r] = pending[r] /\ handler'[r] = handler[r]
          /\ call'[r] = call[r] /\ send_queue'[r] = send_queue[r]
          /\ \A e \in CqEvent : tag'[r][e] = tag[r][e]
          /\ queue'[r] = queue[r] /\ event_queue' = event_queue
          /\ r \in active' <=> r \in active
          /\ r \in 1..created' <=> r \in 1..created
      BY <1>3, <1>4, <1>5, <1>6, <2>2, Zenon
    <3>2. \A e \in CqEvent : InQueue(r, e) => InQueue(r, e)'
      BY <3>1, Zenon DEF InQueue
    <3>3. pending[r] \subseteq CqEvent /\ RpcLife(r)
      BY <1>1, Zenon DEF TypeOK, LifeInv
    <3>4. QED
      BY <3>1, <3>2, <3>3, UntouchedRpc, Zenon
  <2>3. QED
    BY <2>1, <2>2, Zenon
<1>8. ASSUME NEW q2 \in EventQueues PROVE QueueLife(q2)'
  <2>1. QueueLife(q2)
    BY Zenon DEF LifeInv
  <2>2. QED
    BY <1>5, <2>1, Zenon DEF QueueLife
<1>9. ASSUME NEW q2 \in EventQueues PROVE RelistenLife(q2)'
  <2>1. CASE q2 = q
    BY <1>4, <1>6, <2>1, Zenon DEF RelistenLife
  <2>2. CASE q2 # q
    <3>1. relisten'[q2] = relisten[q2]
      BY <1>4, <1>6, <2>2, Zenon
    <3>2. ASSUME relisten[q2] # NoRpc
          PROVE "NEW_CONNECTION" \notin pending'[relisten[q2]]
      <4>1. relisten[q2] \in 1..created
        BY <3>2, Zenon DEF TagInv, OnlyCreatedRpcs
      <4>2. relisten[q2] # new
        BY <1>3, <4>1, Zenon
      <4>3. pending'[relisten[q2]] = pending[relisten[q2]]
        BY <1>4, <1>6, <3>2, <4>2, Zenon
      <4>4. QED
        BY <3>2, <4>3, Zenon DEF LifeInv, RelistenLife
    <3>3. QED
      BY <3>1, <3>2, Zenon DEF RelistenLife
  <2>3. QED
    BY <2>1, <2>2, Zenon
<1>10. ASSUME NEW w \in Writers PROVE WriterLife(w)'
  BY <1>5, Zenon DEF LifeInv, WriterLife
<1>11. QED
  BY <1>7, <1>8, <1>9, <1>10, Zenon DEF LifeInv

\* A push to the event queue of r.
LEMMA PushPreservesQueueLife ==
  ASSUME LifeInv, NEW r \in Rpcs, NEW e, Pushed(r, e), UNCHANGED call,
         e = "NEW_CONNECTION" =>
           \A q \in EventQueues : \A i \in 1..Len(event_queue[q]) :
             ~(event_queue[q][i].rpc = r /\ event_queue[q][i].event = "DONE"),
         e = "NEW_CONNECTION" =>
           \A q \in EventQueues : \A i \in 1..Len(event_queue'[q]) :
             (i \notin 1..Len(event_queue[q]) /\ event_queue'[q][i].ok)
               => call[r] # "none"
  PROVE \A q \in EventQueues : QueueLife(q)'
<1> SUFFICES ASSUME NEW q \in EventQueues PROVE QueueLife(q)'
  BY Zenon
<1>1. QueueLife(q)
  BY Zenon DEF LifeInv
<1>2. /\ \A i \in 1..Len(event_queue[q]) :
           event_queue'[q][i] = event_queue[q][i]
      /\ \A i \in 1..Len(event_queue'[q]) :
           i \notin 1..Len(event_queue[q]) =>
             /\ event_queue'[q][i].rpc = r
             /\ event_queue'[q][i].event = e
             /\ \A j \in 1..Len(event_queue[q]) : j < i
  BY Zenon DEF Pushed
<1>3. ASSUME NEW i \in 1..Len(event_queue'[q]), NEW j \in 1..Len(event_queue'[q]),
             event_queue'[q][i].rpc = event_queue'[q][j].rpc,
             event_queue'[q][i].event = "NEW_CONNECTION",
             event_queue'[q][j].event = "DONE"
      PROVE i < j
  <2>1. CASE i \in 1..Len(event_queue[q]) /\ j \in 1..Len(event_queue[q])
    BY <1>1, <1>2, <1>3, <2>1, Zenon DEF QueueLife
  <2>2. CASE i \in 1..Len(event_queue[q]) /\ j \notin 1..Len(event_queue[q])
    BY <1>2, <2>2, Zenon
  <2>3. CASE i \notin 1..Len(event_queue[q])
    <3>1. e = "NEW_CONNECTION"
      BY <1>2, <1>3, <2>3, Zenon
    <3>2. j \in 1..Len(event_queue[q])
      <4>1. ASSUME j \notin 1..Len(event_queue[q]) PROVE FALSE
        <5>1. event_queue'[q][j].event = e
          BY <1>2, <4>1, Zenon
        <5>2. QED
          BY <1>3, <3>1, <5>1
      <4>2. QED
        BY <4>1, Zenon
    <3>3. event_queue[q][j].rpc = r /\ event_queue[q][j].event = "DONE"
      BY <1>2, <1>3, <2>3, <3>2, Zenon
    <3>4. QED
      BY <3>1, <3>2, <3>3, Zenon
  <2>4. QED
    BY <2>1, <2>2, <2>3, Zenon
<1>4. ASSUME NEW i \in 1..Len(event_queue'[q]),
             event_queue'[q][i].event = "NEW_CONNECTION", event_queue'[q][i].ok
      PROVE call'[event_queue'[q][i].rpc] # "none"
  <2>1. CASE i \in 1..Len(event_queue[q])
    BY <1>1, <1>2, <1>4, <2>1, Zenon DEF QueueLife
  <2>2. CASE i \notin 1..Len(event_queue[q])
    BY <1>2, <1>4, <2>2, Zenon
  <2>3. QED
    BY <2>1, <2>2, Zenon
<1>5. QED
  BY <1>3, <1>4, Zenon DEF QueueLife

LEMMA CompletionPreservesLife ==
  ASSUME TagInv, LifeInv, NEW r \in Rpcs, NEW e \in CqEvent,
         RunCompletionQueue(r, e)
  PROVE LifeInv'
<1>1. TypeOK
  BY Zenon DEF TagInv
<1>2. tag[r][e] \in {"ok", "failed"}
  BY Zenon DEF RunCompletionQueue
<1>3. /\ created' = created /\ active' = active /\ queue' = queue
      /\ handler' = handler /\ pending' = pending /\ send_queue' = send_queue
      /\ relisten' = relisten /\ call' = call
      /\ writer_rpc' = writer_rpc /\ writer_pc' = writer_pc
  BY Zenon DEF RunCompletionQueue, rpcVars, writerVars
<1>4. CASE UNCHANGED <<tag, event_queue>>
  BY <1>1, <1>3, <1>4, FramePreservesLife, Zenon DEF rpcVars, RunCompletionQueue
<1> DEFINE ev == [rpc |-> r, event |-> e, ok |-> tag[r][e] = "ok"]
<1>5. CASE /\ tag' = [tag EXCEPT ![r][e] = "queued"]
           /\ event_queue' = [event_queue EXCEPT ![queue[r]] = Append(@, ev)]
  <2>1. ev \in QueuedEvent /\ ev.rpc = r /\ ev.event = e
    BY DEF QueuedEvent, Event
  <2>2. ev.ok = (tag[r][e] = "ok")
    BY Zenon
  <2> HIDE DEF ev
  <2>3. /\ Pushed(r, e)
        /\ \A q \in EventQueues : \A i \in 1..Len(event_queue'[q]) :
             i \notin 1..Len(event_queue[q]) => event_queue'[q][i] = ev
    BY <1>1, <1>5, <2>1, AppendPushes, ZenonT(40)
  <2>4. tag \in [Rpcs -> [CqEvent -> TagState]]
    BY <1>1, Zenon DEF TypeOK
  <2>5. /\ tag'[r][e] = "queued"
        /\ \A e2 \in CqEvent : e2 # e => tag'[r][e2] = tag[r][e2]
        /\ \A r2 \in Rpcs : r2 # r => tag'[r2] = tag[r2]
    BY <1>5, <2>4, Zenon
  <2>6. \A r2 \in Rpcs : \A e2 \in CqEvent : InQueue(r2, e2) => InQueue(r2, e2)'
    BY <1>1, <1>3, <2>3, PushKeepsEvents, Zenon
  <2>7. InQueue(r, e)'
    BY <1>3, <2>3, Zenon DEF InQueue, Pushed
  <2>8. RpcLife(r)
    BY Zenon DEF LifeInv
  <2>9. /\ e = "NEW_CONNECTION" => tag[r]["DONE"] = "started"
        /\ e = "DONE"
             => tag[r]["NEW_CONNECTION"] \notin {"started", "ok", "failed"}
    <3>1. e = "NEW_CONNECTION" => tag[r]["DONE"] = "started"
      BY <1>2, <2>8, Zenon DEF RpcLife
    <3>2. e = "DONE" => tag[r]["DONE"] # "started"
      BY <1>2
    <3>3. QED
      BY <2>8, <3>1, <3>2, Zenon DEF RpcLife
  <2>10. ASSUME NEW r2 \in Rpcs PROVE RpcLife(r2)'
    <3>1. CASE r2 = r
      <4>1. \A e2 \in pending'[r] : tag'[r][e2] # "idle"
        <5>1. pending[r] \subseteq CqEvent /\ "queued" # "idle"
          BY <1>1 DEF TypeOK
        <5>2. \A e2 \in pending[r] : tag[r][e2] # "idle"
          BY <2>8, Zenon DEF RpcLife
        <5>3. QED
          BY <1>3, <2>5, <5>1, <5>2, Zenon
      <4>2. \A e2 \in CqEvent : tag'[r][e2] = "queued" => InQueue(r, e2)'
        BY <2>5, <2>6, <2>7, <2>8, Zenon DEF RpcLife
      <4>3. /\ "NEW_CONNECTION" \in CqEvent /\ "DONE" \in CqEvent
            /\ "NEW_CONNECTION" # "DONE"
        BY DEF CqEvent
      <4>4. tag'[r]["NEW_CONNECTION"] \in {"started", "ok", "failed"}
              => tag'[r]["DONE"] = "started"
        <5>1. CASE e = "NEW_CONNECTION"
          BY <2>5, <5>1
        <5>2. CASE e = "DONE"
          BY <2>5, <2>9, <4>3, <5>2, Zenon
        <5>3. CASE e # "NEW_CONNECTION" /\ e # "DONE"
          BY <2>5, <2>8, <4>3, <5>3, Zenon DEF RpcLife
        <5>4. QED
          BY <5>1, <5>2, <5>3, Zenon
      <4>5. tag'[r]["NEW_CONNECTION"] = "ok"
              => tag[r]["NEW_CONNECTION"] = "ok"
        BY <2>5, <4>3
      <4>6. tag'[r]["DONE"] # "started" => tag[r]["DONE"] # "started"
        BY <1>2, <2>5, <4>3
      <4>7. RpcLife(r)'
        BY <1>3, <2>8, <4>1, <4>2, <4>4, <4>5, <4>6, Zenon DEF RpcLife
      <4>8. QED
        BY <3>1, <4>7, Zenon
    <3>2. CASE r2 # r
      <4>1. pending[r2] \subseteq CqEvent /\ RpcLife(r2)
        BY <1>1, Zenon DEF TypeOK, LifeInv
      <4>2. QED
        BY <1>3, <2>5, <2>6, <3>2, <4>1, UntouchedRpc, Zenon
    <3>3. QED
      BY <3>1, <3>2, Zenon
  <2>11. \A q \in EventQueues : QueueLife(q)'
    <3>1. e = "NEW_CONNECTION" =>
            \A q \in EventQueues : \A i \in 1..Len(event_queue[q]) :
              ~(event_queue[q][i].rpc = r /\ event_queue[q][i].event = "DONE")
      <4> SUFFICES ASSUME e = "NEW_CONNECTION", NEW q \in EventQueues,
                          NEW i \in 1..Len(event_queue[q]),
                          event_queue[q][i].rpc = r,
                          event_queue[q][i].event = "DONE"
                   PROVE FALSE
        BY Zenon
      <4>1. "DONE" \in CqEvent
        BY DEF CqEvent
      <4>2. tag[r]["DONE"] = "queued"
        BY <4>1, Zenon DEF TagInv, QueuedTags
      <4>3. QED
        BY <2>9, <4>2
    <3>2. e = "NEW_CONNECTION" =>
            \A q \in EventQueues : \A i \in 1..Len(event_queue'[q]) :
              (i \notin 1..Len(event_queue[q]) /\ event_queue'[q][i].ok)
                => call[r] # "none"
      BY <2>2, <2>3, <2>8, Zenon DEF RpcLife
    <3>3. QED
      BY <1>3, <2>3, <3>1, <3>2, PushPreservesQueueLife, Zenon
  <2>12. ASSUME NEW q \in EventQueues PROVE RelistenLife(q)'
    BY <1>3, Zenon DEF LifeInv, RelistenLife
  <2>13. ASSUME NEW w \in Writers PROVE WriterLife(w)'
    BY <1>3, Zenon DEF LifeInv, WriterLife
  <2>14. QED
    BY <2>10, <2>11, <2>12, <2>13, Zenon DEF LifeInv
<1>6. QED
  BY <1>4, <1>5, Zenon DEF RunCompletionQueue

\* gRPC completes a tag of r, or begins or ends its call.
LEMMA CallPreservesLife ==
  ASSUME TagInv, LifeInv, NEW r \in Rpcs,
         UNCHANGED <<rpcVars, event_queue, relisten, writer_rpc, writer_pc>>,
         \A r2 \in Rpcs : r2 # r => tag'[r2] = tag[r2] /\ call'[r2] = call[r2],
         \A e \in CqEvent :
           tag'[r][e] # tag[r][e]
             => tag[r][e] = "started" /\ tag'[r][e] \in {"ok", "failed"},
         call[r] # "none" => call'[r] # "none",
         \/ call'[r] = call[r] \/ call'[r] = "over"
         \/ tag[r]["NEW_CONNECTION"] = "started",
         tag'[r]["DONE"] # tag[r]["DONE"]
           => /\ call'[r] = "over"
              /\ tag'[r]["NEW_CONNECTION"] \in {"queued", "idle"},
         tag'[r]["NEW_CONNECTION"] # tag[r]["NEW_CONNECTION"]
           => tag'[r]["NEW_CONNECTION"] = "failed" \/ call'[r] # "none"
  PROVE LifeInv'
<1>1. TypeOK /\ RpcLife(r)
  BY Zenon DEF TagInv, LifeInv
<1>2. /\ created' = created /\ active' = active /\ queue' = queue
      /\ handler' = handler /\ pending' = pending /\ send_queue' = send_queue
      /\ event_queue' = event_queue /\ relisten' = relisten
      /\ writer_rpc' = writer_rpc /\ writer_pc' = writer_pc
  BY Zenon DEF rpcVars
<1>3. \A r2 \in Rpcs : \A e \in CqEvent : InQueue(r2, e) => InQueue(r2, e)'
  BY <1>2, Zenon DEF InQueue
<1>4. "NEW_CONNECTION" \in CqEvent /\ "DONE" \in CqEvent
  BY DEF CqEvent
<1>5. tag[r]["NEW_CONNECTION"] = "started"
        => tag[r]["DONE"] = "started" /\ handler[r] = "null"
  <2>1. ASSUME tag[r]["NEW_CONNECTION"] = "started"
        PROVE tag[r]["DONE"] = "started" /\ handler[r] = "null"
    <3>1. tag[r]["DONE"] = "started"
      BY <1>1, <2>1, Zenon DEF RpcLife
    <3>2. tag[r]["NEW_CONNECTION"] # "idle"
      BY <2>1
    <3>3. "NEW_CONNECTION" \in pending[r]
      BY <1>4, <3>2, Zenon DEF TagInv, UsedTagsArePending
    <3>4. QED
      BY <1>1, <3>1, <3>3, Zenon DEF RpcLife
  <2>2. QED
    BY <2>1, Zenon
<1>6. RpcLife(r)'
  <2>1. \A e \in pending'[r] : tag'[r][e] # "idle"
    <3>1. pending[r] \subseteq CqEvent
      BY <1>1, Zenon DEF TypeOK
    <3>2. \A e \in pending[r] : tag[r][e] # "idle"
      BY <1>1, Zenon DEF RpcLife
    <3>3. \A e \in CqEvent : tag'[r][e] = "idle" => tag[r][e] = "idle"
      OBVIOUS
    <3>4. QED
      BY <1>2, <3>1, <3>2, <3>3, Zenon
  <2>2. \A e \in CqEvent : tag'[r][e] = "queued" => InQueue(r, e)'
    <3>1. \A e \in CqEvent : tag'[r][e] = "queued" => tag[r][e] = "queued"
      OBVIOUS
    <3>2. QED
      BY <1>1, <1>3, <3>1, Zenon DEF RpcLife
  <2>3. tag'[r]["NEW_CONNECTION"] \in {"started", "ok", "failed"}
          => tag'[r]["DONE"] = "started"
    <3> SUFFICES ASSUME tag'[r]["NEW_CONNECTION"] \in {"started", "ok", "failed"}
                 PROVE tag'[r]["DONE"] = "started"
      BY Zenon
    <3>1. tag[r]["NEW_CONNECTION"] \in {"started", "ok", "failed"}
      BY <1>4
    <3>2. tag[r]["DONE"] = "started"
      BY <1>1, <3>1, Zenon DEF RpcLife
    <3>3. tag'[r]["NEW_CONNECTION"] \notin {"queued", "idle"}
      OBVIOUS
    <3>4. QED
      BY <3>2, <3>3, Zenon
  <2>4. tag'[r]["NEW_CONNECTION"] = "ok" => call'[r] # "none"
    <3>1. CASE tag'[r]["NEW_CONNECTION"] = tag[r]["NEW_CONNECTION"]
      BY <1>1, <3>1, Zenon DEF RpcLife
    <3>2. CASE tag'[r]["NEW_CONNECTION"] # tag[r]["NEW_CONNECTION"]
      BY <3>2
    <3>3. QED
      BY <3>1, <3>2, Zenon
  <2>5. (r \in 1..created /\ tag'[r]["DONE"] # "started") => call'[r] = "over"
    <3> SUFFICES ASSUME r \in 1..created, tag'[r]["DONE"] # "started"
                 PROVE call'[r] = "over"
      BY Zenon
    <3>1. CASE tag'[r]["DONE"] # tag[r]["DONE"]
      BY <3>1, Zenon
    <3>2. CASE tag'[r]["DONE"] = tag[r]["DONE"]
      <4>1. call[r] = "over" /\ tag[r]["NEW_CONNECTION"] # "started"
        BY <1>1, <1>5, <3>2, Zenon DEF RpcLife
      <4>2. QED
        BY <4>1, Zenon
    <3>3. QED
      BY <3>1, <3>2, Zenon
  <2>6. (r \in 1..created /\ handler[r] # "null" /\ r \notin active)
          => call'[r] = "over"
    <3> SUFFICES ASSUME r \in 1..created, handler[r] # "null", r \notin active
                 PROVE call'[r] = "over"
      BY Zenon
    <3>1. call[r] = "over" /\ tag[r]["NEW_CONNECTION"] # "started"
      BY <1>1, <1>5, Zenon DEF RpcLife
    <3>2. QED
      BY <3>1, Zenon
  <2>7. QED
    BY <1>1, <1>2, <2>1, <2>2, <2>3, <2>4, <2>5, <2>6, Zenon DEF RpcLife
<1>7. ASSUME NEW r2 \in Rpcs PROVE RpcLife(r2)'
  <2>1. CASE r2 = r
    BY <1>6, <2>1, Zenon
  <2>2. CASE r2 # r
    <3>1. pending[r2] \subseteq CqEvent /\ RpcLife(r2)
      BY <1>1, Zenon DEF TypeOK, LifeInv
    <3>2. QED
      BY <1>2, <1>3, <2>2, <3>1, UntouchedRpc, Zenon
  <2>3. QED
    BY <2>1, <2>2, Zenon
<1>8. ASSUME NEW q \in EventQueues PROVE QueueLife(q)'
  <2>1. QueueLife(q)
    BY Zenon DEF LifeInv
  <2>2. ASSUME NEW i \in 1..Len(event_queue[q]),
               event_queue[q][i].event = "NEW_CONNECTION", event_queue[q][i].ok
        PROVE call'[event_queue[q][i].rpc] # "none"
    <3>1. event_queue[q] \in Seq(QueuedEvent)
      BY <1>1, Zenon DEF TypeOK
    <3>2. event_queue[q][i] \in QueuedEvent
      BY <3>1
    <3>3. event_queue[q][i].rpc \in Rpcs
      BY <3>2 DEF QueuedEvent
    <3>4. call[event_queue[q][i].rpc] # "none"
      BY <2>1, <2>2, Zenon DEF QueueLife
    <3>5. QED
      BY <3>3, <3>4, Zenon
  <2>3. /\ event_queue'[q] = event_queue[q]
        /\ \A i, j \in 1..Len(event_queue[q]) :
             (/\ event_queue[q][i].rpc = event_queue[q][j].rpc
              /\ event_queue[q][i].event = "NEW_CONNECTION"
              /\ event_queue[q][j].event = "DONE") => i < j
    BY <1>2, <2>1, Zenon DEF QueueLife
  <2>4. \A i \in 1..Len(event_queue[q]) :
          (event_queue[q][i].event = "NEW_CONNECTION" /\ event_queue[q][i].ok)
            => call'[event_queue[q][i].rpc] # "none"
    BY <2>2, Zenon
  <2>5. QED
    BY <2>3, <2>4, Zenon DEF QueueLife
<1>9. ASSUME NEW q \in EventQueues PROVE RelistenLife(q)'
  BY <1>2, Zenon DEF LifeInv, RelistenLife
<1>10. ASSUME NEW w \in Writers PROVE WriterLife(w)'
  BY <1>2, Zenon DEF LifeInv, WriterLife
<1>11. QED
  BY <1>7, <1>8, <1>9, <1>10, Zenon DEF LifeInv

LEMMA GrpcPreservesLife ==
  ASSUME TagInv, LifeInv, NEW r \in Rpcs,
         \/ IncomingCall(r) \/ RequestFails(r) \/ ClientSends(r)
         \/ ClientWritesDone(r) \/ ReadFails(r) \/ WriteCompletes(r)
         \/ FinishCompletes(r) \/ CallIsDone(r) \/ ClientCancels(r)
  PROVE LifeInv'
<1>1. /\ tag \in [Rpcs -> [CqEvent -> TagState]]
      /\ call \in [Rpcs -> {"none", "open", "over"}]
  BY Zenon DEF TagInv, TypeOK
<1>2. /\ "NEW_CONNECTION" \in CqEvent /\ "READ" \in CqEvent
      /\ "WRITE" \in CqEvent /\ "FINISH" \in CqEvent /\ "DONE" \in CqEvent
  BY DEF CqEvent
\* What a completed tag leaves as it is, and what it changes.
<1>3. ASSUME NEW e \in CqEvent, NEW result, Complete(r, e, result)
      PROVE /\ UNCHANGED <<rpcVars, event_queue, relisten, writer_rpc, writer_pc>>
            /\ tag[r][e] = "started" /\ tag'[r][e] = result
            /\ \A e2 \in CqEvent : e2 # e => tag'[r][e2] = tag[r][e2]
            /\ \A r2 \in Rpcs : r2 # r => tag'[r2] = tag[r2]
  <2>1. /\ tag[r][e] = "started"
        /\ tag' = [tag EXCEPT ![r][e] = result]
        /\ UNCHANGED <<rpcVars, event_queue, relisten, writer_rpc, writer_pc>>
    BY <1>3, ZenonT(40) DEF Complete, threadVars, writerVars
  <2>2. QED
    BY <1>1, <2>1, Zenon
<1>4. CASE IncomingCall(r)
  <2>1. /\ Complete(r, "NEW_CONNECTION", "ok")
        /\ call' = [call EXCEPT ![r] = "open"]
    BY <1>4, Zenon DEF IncomingCall
  <2>2. /\ call'[r] = "open"
        /\ \A r2 \in Rpcs : r2 # r => call'[r2] = call[r2]
    BY <1>1, <2>1, Zenon
  <2>3. call'[r] # "none"
    BY <2>2
  <2>4. /\ UNCHANGED <<rpcVars, event_queue, relisten, writer_rpc, writer_pc>>
        /\ tag[r]["NEW_CONNECTION"] = "started"
        /\ tag'[r]["NEW_CONNECTION"] = "ok"
        /\ \A e2 \in CqEvent :
             e2 # "NEW_CONNECTION" => tag'[r][e2] = tag[r][e2]
        /\ \A r2 \in Rpcs : r2 # r => tag'[r2] = tag[r2]
    BY <1>2, <1>3, <2>1, Zenon
  <2>5. tag'[r]["DONE"] = tag[r]["DONE"]
    BY <1>2, <2>4
  <2>6. \A e \in CqEvent :
          tag'[r][e] # tag[r][e]
            => tag[r][e] = "started" /\ tag'[r][e] \in {"ok", "failed"}
    BY <2>4, Zenon
  <2>7. QED
    BY <2>2, <2>3, <2>4, <2>5, <2>6, CallPreservesLife, Zenon
<1>5. CASE ClientCancels(r)
  <2>1. /\ UNCHANGED <<rpcVars, event_queue, relisten, writer_rpc, writer_pc>>
        /\ tag' = tag
        /\ call' = [call EXCEPT ![r] = "over"]
    BY <1>5, Zenon DEF ClientCancels, threadVars, writerVars
  <2>2. /\ call'[r] = "over"
        /\ \A r2 \in Rpcs : r2 # r => call'[r2] = call[r2]
    BY <1>1, <2>1, Zenon
  <2>3. call'[r] # "none"
    BY <2>2, Zenon
  <2>4. QED
    BY <2>1, <2>2, <2>3, CallPreservesLife, Zenon
<1>6. CASE FinishCompletes(r)
  <2>1. PICK result \in {"ok", "failed"} :
          /\ Complete(r, "FINISH", result)
          /\ call' = [call EXCEPT ![r] = "over"]
    BY <1>6 DEF FinishCompletes
  <2>2. /\ call'[r] = "over"
        /\ \A r2 \in Rpcs : r2 # r => call'[r2] = call[r2]
    BY <1>1, <2>1, Zenon
  <2>3. call'[r] # "none"
    BY <2>2
  <2>4. /\ UNCHANGED <<rpcVars, event_queue, relisten, writer_rpc, writer_pc>>
        /\ tag[r]["FINISH"] = "started" /\ tag'[r]["FINISH"] = result
        /\ \A e2 \in CqEvent : e2 # "FINISH" => tag'[r][e2] = tag[r][e2]
        /\ \A r2 \in Rpcs : r2 # r => tag'[r2] = tag[r2]
    BY <1>2, <1>3, <2>1, Zenon
  <2>5. /\ tag'[r]["DONE"] = tag[r]["DONE"]
        /\ tag'[r]["NEW_CONNECTION"] = tag[r]["NEW_CONNECTION"]
    BY <1>2, <2>4
  <2>6. \A e \in CqEvent :
          tag'[r][e] # tag[r][e]
            => tag[r][e] = "started" /\ tag'[r][e] \in {"ok", "failed"}
    BY <2>4, Zenon
  <2>7. QED
    BY <2>2, <2>3, <2>4, <2>5, <2>6, CallPreservesLife, Zenon
<1>7. CASE CallIsDone(r)
  <2>1. /\ Complete(r, "DONE", "ok") /\ call[r] = "over" /\ call' = call
        /\ tag[r]["NEW_CONNECTION"] \in {"queued", "idle"}
    BY <1>7, ZenonT(30) DEF CallIsDone
  <2>2. QED
    BY <1>2, <1>3, <2>1, CallPreservesLife
<1>8. CASE \/ RequestFails(r) \/ ClientSends(r) \/ ClientWritesDone(r)
           \/ ReadFails(r) \/ WriteCompletes(r)
  <2>1. PICK e \in {"NEW_CONNECTION", "READ", "WRITE"},
             result \in {"ok", "failed"} :
          /\ Complete(r, e, result)
          /\ e = "NEW_CONNECTION" => result = "failed"
          /\ call' = call
    BY <1>8 DEF RequestFails, ClientSends, ClientWritesDone, ReadFails,
       WriteCompletes
  <2>2. e \in CqEvent /\ e # "DONE"
    BY <1>2, Zenon
  <2>3. /\ UNCHANGED <<rpcVars, event_queue, relisten, writer_rpc, writer_pc>>
        /\ tag[r][e] = "started" /\ tag'[r][e] = result
        /\ \A e2 \in CqEvent : e2 # e => tag'[r][e2] = tag[r][e2]
        /\ \A r2 \in Rpcs : r2 # r => tag'[r2] = tag[r2]
    BY <1>3, <2>1, <2>2, Zenon
  <2>4. tag'[r]["DONE"] = tag[r]["DONE"]
    BY <1>2, <2>2, <2>3, Zenon
  <2>5. tag'[r]["NEW_CONNECTION"] # tag[r]["NEW_CONNECTION"]
          => tag'[r]["NEW_CONNECTION"] = "failed"
    BY <1>2, <2>1, <2>3, Zenon
  <2>6. \A e2 \in CqEvent :
          tag'[r][e2] # tag[r][e2]
            => tag[r][e2] = "started" /\ tag'[r][e2] \in {"ok", "failed"}
    BY <2>3, Zenon
  <2>7. \A r2 \in Rpcs : call'[r2] = call[r2]
    BY <2>1, Zenon
  <2>8. QED
    BY <2>3, <2>4, <2>5, <2>6, <2>7, CallPreservesLife, Zenon
<1>9. QED
  BY <1>4, <1>5, <1>6, <1>7, <1>8, Zenon

LEMMA WriterPreservesLife ==
  ASSUME TagInv, LifeInv, NEW w \in Writers, WriterStep(w)
  PROVE LifeInv'
<1>1. /\ TypeOK
      /\ writer_pc \in [Writers -> {"idle", "enqueued", "notified"}]
      /\ writer_rpc \in [Writers -> Rpcs \cup {NoRpc}]
      /\ send_queue \in [Rpcs -> Seq(SendItem)]
      /\ \A r \in Rpcs : pending[r] \subseteq CqEvent
  BY Zenon DEF TagInv, TypeOK
<1>2. \A w2 \in Writers : WriterLife(w2)
  BY Zenon DEF LifeInv
<1>3. ASSUME NEW r \in Rpcs, NEW item \in WriterItems, WriterEnqueue(w, r, item)
      PROVE LifeInv'
  <2>1. /\ created' = created /\ active' = active /\ queue' = queue
        /\ handler' = handler /\ pending' = pending /\ tag' = tag
        /\ event_queue' = event_queue /\ relisten' = relisten /\ call' = call
        /\ writer_pc' = [writer_pc EXCEPT ![w] = "enqueued"]
        /\ writer_rpc' = [writer_rpc EXCEPT ![w] = r]
        /\ send_queue' = [send_queue EXCEPT ![r] = Append(@, item)]
        /\ handler[r] # "null"
    BY <1>3, Zenon DEF WriterEnqueue, threadVars, grpcVars
  <2>2. \A r2 \in Rpcs : r2 # r => send_queue'[r2] = send_queue[r2]
    BY <1>1, <2>1, Zenon
  <2>3. \A r2 \in Rpcs : \A e \in CqEvent : InQueue(r2, e) => InQueue(r2, e)'
    BY <2>1, Zenon DEF InQueue
  <2>4. ASSUME NEW r2 \in Rpcs PROVE RpcLife(r2)'
    <3>1. RpcLife(r2)
      BY Zenon DEF LifeInv
    <3>2. CASE r2 = r
      <4>1. RpcLife(r)
        BY <3>1, <3>2, Zenon
      <4>2. \A e \in CqEvent : tag'[r][e] = "queued" => InQueue(r, e)'
        BY <2>1, <2>3, <4>1, Zenon DEF RpcLife
      <4>3. handler'[r] # "null"
        BY <2>1, Zenon
      <4>4. RpcLife(r)'
        BY <2>1, <4>1, <4>2, <4>3, Zenon DEF RpcLife
      <4>5. QED
        BY <3>2, <4>4, Zenon
    <3>3. CASE r2 # r
      BY <1>1, <2>1, <2>2, <2>3, <3>1, <3>3, UntouchedRpc, Zenon
    <3>4. QED
      BY <3>2, <3>3, Zenon
  <2>5. ASSUME NEW q \in EventQueues PROVE QueueLife(q)' /\ RelistenLife(q)'
    <3>1. QueueLife(q) /\ RelistenLife(q)
      BY Zenon DEF LifeInv
    <3>2. QED
      BY <2>1, <3>1, Zenon DEF QueueLife, RelistenLife
  <2>6. ASSUME NEW w2 \in Writers PROVE WriterLife(w2)'
    <3>1. CASE w2 = w
      <4>1. writer_rpc'[w] = r /\ r # NoRpc
        BY <1>1, <2>1, Sizes, Zenon
      <4>2. QED
        BY <2>1, <3>1, <4>1, Zenon DEF WriterLife
    <3>2. CASE w2 # w
      <4>1. writer_rpc'[w2] = writer_rpc[w2] /\ writer_pc'[w2] = writer_pc[w2]
        BY <1>1, <2>1, <3>2, Zenon
      <4>2. QED
        BY <1>2, <2>1, <4>1, Zenon DEF WriterLife
    <3>3. QED
      BY <3>1, <3>2, Zenon
  <2>7. QED
    BY <2>4, <2>5, <2>6, Zenon DEF LifeInv
<1>4. ASSUME WriterNotify(w) PROVE LifeInv'
  <2>1. /\ created' = created /\ active' = active /\ queue' = queue
        /\ handler' = handler /\ pending' = pending /\ tag' = tag
        /\ send_queue' = send_queue /\ relisten' = relisten /\ call' = call
        /\ writer_rpc' = writer_rpc
        /\ writer_pc[w] = "enqueued"
    BY <1>4, Zenon DEF WriterNotify, rpcVars, grpcVars
  <2>2. CASE UNCHANGED <<event_queue, writer_pc>>
    <3>1. UNCHANGED rpcVars
      BY <1>4, Zenon DEF WriterNotify
    <3>2. QED
      BY <1>1, <2>1, <2>2, <3>1, FramePreservesLife, Zenon
  <2>3. PICK r : r = writer_rpc[w]
    BY Zenon
  <2>4. r \in Rpcs
    <3>1. writer_pc[w] # "idle"
      BY <2>1
    <3>2. writer_rpc[w] # NoRpc
      BY <1>2, <3>1, Zenon DEF WriterLife
    <3>3. QED
      BY <1>1, <2>3, <3>2, Zenon
  <2>5. CASE /\ event_queue' = [event_queue EXCEPT ![queue[r]] =
                                  @ \o WriteNeeded(r, <<"MSG">>)]
             /\ writer_pc' = [writer_pc EXCEPT ![w] = "notified"]
    <3>1. Pushed(r, "WRITE_NEEDED")
      BY <1>1, <2>4, <2>5, NotifyIsPushed, Zenon
    <3>2. \A r2 \in Rpcs : \A e \in CqEvent : InQueue(r2, e) => InQueue(r2, e)'
      BY <1>1, <2>1, <3>1, PushKeepsEvents, Zenon
    <3>3. ASSUME NEW r2 \in Rpcs PROVE RpcLife(r2)'
      <4>1. RpcLife(r2)
        BY Zenon DEF LifeInv
      <4>2. QED
        BY <1>1, <2>1, <3>2, <4>1, UntouchedRpc, Zenon
    <3>4. \A q \in EventQueues : QueueLife(q)'
      <4>1. "WRITE_NEEDED" # "NEW_CONNECTION"
        OBVIOUS
      <4>2. QED
        BY <2>1, <2>4, <3>1, <4>1, PushPreservesQueueLife, Zenon
    <3>5. ASSUME NEW q \in EventQueues PROVE RelistenLife(q)'
      BY <2>1, Zenon DEF LifeInv, RelistenLife
    <3>6. ASSUME NEW w2 \in Writers PROVE WriterLife(w2)'
      <4>1. writer_pc'[w2] # "idle" => writer_pc[w2] # "idle"
        BY <1>1, <2>1, <2>5
      <4>2. QED
        BY <1>2, <2>1, <4>1, ZenonT(40) DEF WriterLife
    <3>7. QED
      BY <3>3, <3>4, <3>5, <3>6, Zenon DEF LifeInv
  <2>6. QED
    BY <1>4, <2>2, <2>3, <2>5, Zenon DEF WriterNotify
<1>5. ASSUME WriterReturn(w) PROVE LifeInv'
  <2>1. /\ created' = created /\ active' = active /\ queue' = queue
        /\ handler' = handler /\ pending' = pending /\ tag' = tag
        /\ send_queue' = send_queue /\ relisten' = relisten /\ call' = call
        /\ event_queue' = event_queue
        /\ writer_pc' = [writer_pc EXCEPT ![w] = "idle"]
        /\ writer_rpc' = [writer_rpc EXCEPT ![w] = NoRpc]
    BY <1>5, Zenon DEF WriterReturn, rpcVars, threadVars, grpcVars
  <2>2. \A r2 \in Rpcs : \A e \in CqEvent : InQueue(r2, e) => InQueue(r2, e)'
    BY <2>1, Zenon DEF InQueue
  <2>3. ASSUME NEW r2 \in Rpcs PROVE RpcLife(r2)'
    <3>1. RpcLife(r2)
      BY Zenon DEF LifeInv
    <3>2. QED
      BY <1>1, <2>1, <2>2, <3>1, UntouchedRpc, Zenon
  <2>4. ASSUME NEW q \in EventQueues PROVE QueueLife(q)' /\ RelistenLife(q)'
    <3>1. QueueLife(q) /\ RelistenLife(q)
      BY Zenon DEF LifeInv
    <3>2. QED
      BY <2>1, <3>1, Zenon DEF QueueLife, RelistenLife
  <2>5. ASSUME NEW w2 \in Writers PROVE WriterLife(w2)'
    BY <1>1, <1>2, <2>1, Zenon DEF WriterLife
  <2>6. QED
    BY <2>3, <2>4, <2>5, Zenon DEF LifeInv
<1>6. QED
  BY <1>3, <1>4, <1>5, Zenon DEF WriterStep

LEMMA LifeInvNext ==
  ASSUME TagInv, LifeInv, [Next]_vars
  PROVE LifeInv'
<1>0. TypeOK /\ TagInv'
  BY TagInvNext, Zenon DEF TagInv
<1>1. ASSUME NEW q \in EventQueues, RunEventQueue(q) PROVE LifeInv'
  <2>1. CASE EventStep(q)
    BY <1>0, <2>1, EventIsHandled, EventLife, EventPreservesLife, Zenon
  <2>2. CASE ListenAgain(q)
    BY <2>2, ListenAgainPreservesLife, Zenon
  <2>3. CASE HandleEventOfDestroyedRpc(q)
    BY <1>0, <2>3, FramePreservesLife, Zenon
    DEF HandleEventOfDestroyedRpc, threadVars, grpcVars, writerVars
  <2>4. QED
    BY <1>1, <2>1, <2>2, <2>3, Zenon DEF RunEventQueue, EventStep
<1>2. ASSUME NEW w \in Writers, WriterStep(w) PROVE LifeInv'
  BY <1>2, WriterPreservesLife, Zenon
<1>3. ASSUME NEW r \in Rpcs, ClientStep(r) \/ GrpcStep(r) PROVE LifeInv'
  <2>1. ASSUME NEW e \in CqEvent, RunCompletionQueue(r, e) PROVE LifeInv'
    BY <2>1, CompletionPreservesLife, Zenon
  <2>2. QED
    BY <1>3, <2>1, GrpcPreservesLife, Zenon DEF ClientStep, GrpcStep
<1>4. CASE StartServing
  BY <1>4, StartPreservesLife, Zenon
<1>5. CASE Stop
  BY <1>0, <1>5, FramePreservesLife, Zenon
  DEF Stop, StopServing, GrpcShutdown, CqDrained, DestroyService, threadVars,
      grpcVars, writerVars
<1>6. CASE UNCHANGED vars
  BY <1>0, <1>6, FramePreservesLife, Zenon
  DEF vars, threadVars, grpcVars, writerVars
<1>7. QED
  BY <1>1, <1>2, <1>3, <1>4, <1>5, <1>6, Zenon DEF Next, Serve

\* LifeInv holds throughout.
THEOREM LifeInvariant == Spec => []LifeInv
<1>1. Init => LifeInv
  BY LifeInvInit, Zenon
<1>2. TagInv /\ LifeInv /\ [Next]_vars => LifeInv'
  BY LifeInvNext, Zenon
<1>3. QED
  BY <1>1, <1>2, TagInvariant, PTL DEF Spec

-----------------------------------------------------------------------------
(* What the steps of others than event threads leave as it is *)

LEMMA GrpcFrame ==
  ASSUME NEW r \in Rpcs,
         \/ IncomingCall(r) \/ RequestFails(r) \/ ClientSends(r)
         \/ ClientWritesDone(r) \/ ReadFails(r) \/ WriteCompletes(r)
         \/ FinishCompletes(r) \/ CallIsDone(r) \/ ClientCancels(r)
  PROVE /\ fault = "none" /\ fault' = fault
        /\ created' = created /\ active' = active /\ listener' = listener
        /\ queue' = queue /\ handler' = handler /\ pending' = pending
        /\ send_queue' = send_queue
        /\ event_queue' = event_queue /\ relisten' = relisten
        /\ service_shutting_down' = service_shutting_down
        /\ finishing' = finishing /\ grpc_shutdown' = grpc_shutdown
        /\ cq_drained' = cq_drained
        /\ writer_pc' = writer_pc /\ writer_rpc' = writer_rpc
        /\ writes' = writes
BY Zenon DEF IncomingCall, RequestFails, ClientSends, ClientWritesDone,
   ReadFails, WriteCompletes, FinishCompletes, CallIsDone, ClientCancels,
   Complete, rpcVars, threadVars, writerVars

LEMMA CompletionFrame ==
  ASSUME NEW r \in Rpcs, NEW e \in CqEvent, RunCompletionQueue(r, e)
  PROVE /\ fault = "none"
        /\ created' = created /\ active' = active /\ listener' = listener
        /\ queue' = queue /\ handler' = handler /\ pending' = pending
        /\ send_queue' = send_queue /\ relisten' = relisten
        /\ service_shutting_down' = service_shutting_down
        /\ finishing' = finishing /\ grpc_shutdown' = grpc_shutdown
        /\ cq_drained' = cq_drained
        /\ writer_pc' = writer_pc /\ writer_rpc' = writer_rpc
        /\ writes' = writes
BY Zenon DEF RunCompletionQueue, rpcVars, writerVars

LEMMA WriterFrame ==
  ASSUME NEW w \in Writers, WriterStep(w)
  PROVE /\ fault = "none"
        /\ created' = created /\ active' = active /\ listener' = listener
        /\ queue' = queue /\ handler' = handler /\ pending' = pending
        /\ relisten' = relisten
        /\ service_shutting_down' = service_shutting_down
        /\ tag' = tag /\ finishing' = finishing
        /\ grpc_shutdown' = grpc_shutdown /\ cq_drained' = cq_drained
BY Zenon DEF WriterStep, WriterEnqueue, WriterNotify, WriterReturn, rpcVars,
   threadVars, grpcVars

LEMMA EventFrame ==
  ASSUME NEW q \in EventQueues, RunEventQueue(q)
  PROVE /\ fault = "none"
        /\ service_shutting_down' = service_shutting_down
        /\ grpc_shutdown' = grpc_shutdown /\ cq_drained' = cq_drained
        /\ writer_pc' = writer_pc /\ writer_rpc' = writer_rpc
        /\ writes' = writes
BY Zenon DEF RunEventQueue, RefuseConnection, AcceptConnection, ListenAgain,
   HandleRequest, HandleReadsDone, HandleWrite, HandleFinishOrDone,
   IgnoreStaleEvent, HandleEventOfDestroyedRpc, NextEventIn, grpcVars,
   writerVars

LEMMA StopFrame ==
  ASSUME Stop
  PROVE /\ fault = "none"
        /\ created' = created /\ active' = active /\ listener' = listener
        /\ queue' = queue /\ handler' = handler /\ pending' = pending
        /\ send_queue' = send_queue
        /\ event_queue' = event_queue /\ relisten' = relisten
        /\ tag' = tag /\ finishing' = finishing
        /\ writer_pc' = writer_pc /\ writer_rpc' = writer_rpc
        /\ writes' = writes
        /\ grpc_shutdown => grpc_shutdown'
        /\ service_shutting_down => service_shutting_down'
<1>1. CASE StopServing
  BY <1>1, SMT DEF StopServing, rpcVars, threadVars, grpcVars, writerVars
<1>2. CASE GrpcShutdown
  BY <1>2, SMT DEF GrpcShutdown, rpcVars, threadVars, writerVars
<1>3. CASE \E c \in Cqs : CqDrained(c)
  BY <1>3, SMT DEF CqDrained, rpcVars, threadVars, writerVars
<1>4. CASE DestroyService
  BY <1>4, SMT DEF DestroyService, rpcVars, threadVars, grpcVars, writerVars
<1> QED
  BY <1>1, <1>2, <1>3, <1>4, Zenon DEF Stop

\* The steps of Next.
LEMMA NextCases ==
  ASSUME [Next]_vars, NEW ACTION P,
         StartServing => P,
         \A q \in EventQueues : EventStep(q) => P,
         \A q \in EventQueues : ListenAgain(q) => P,
         \A q \in EventQueues : HandleEventOfDestroyedRpc(q) => P,
         \A w \in Writers : WriterStep(w) => P,
         \A r \in Rpcs :
           (\/ IncomingCall(r) \/ RequestFails(r) \/ ClientSends(r)
            \/ ClientWritesDone(r) \/ ReadFails(r) \/ WriteCompletes(r)
            \/ FinishCompletes(r) \/ CallIsDone(r) \/ ClientCancels(r)) => P,
         \A r \in Rpcs : \A e \in CqEvent : RunCompletionQueue(r, e) => P,
         Stop => P, UNCHANGED vars => P
  PROVE P
BY Zenon DEF Next, Serve, RunEventQueue, EventStep, ClientStep, GrpcStep

-----------------------------------------------------------------------------
(* RemovalInv is an invariant *)

\* A step that leaves the Rpcs and the connections as they are preserves
\* RemovalInv; it may record a fault.
LEMMA FramePreservesRemoval ==
  ASSUME RemovalInv, fault = "none",
         UNCHANGED <<created, active, handler, pending, grpc_shutdown,
                     service_shutting_down, cq_drained, writer_pc, writer_rpc,
                     writes>>,
         \A r \in Rpcs : tag'[r]["NEW_CONNECTION"] = "failed"
                           => tag[r]["NEW_CONNECTION"] = "failed" \/ grpc_shutdown,
         \A q \in EventQueues : \A i \in 1..Len(event_queue'[q]) :
           (event_queue'[q][i].event = "NEW_CONNECTION" /\ ~event_queue'[q][i].ok)
             => grpc_shutdown
  PROVE RemovalInv'
<1>1. ShutdownOrder'
  BY Zenon DEF RemovalInv, ShutdownOrder
<1>2. OnlyRefusedWhenStopped'
  BY Zenon DEF RemovalInv, OnlyRefusedWhenStopped
<1>3. RemovedAtTheEnd'
  BY Zenon DEF RemovalInv, RemovedAtTheEnd
<1>4. QED
  BY <1>1, <1>2, <1>3, Zenon DEF RemovalInv

LEMMA GrpcPreservesRemoval ==
  ASSUME TagInv, RemovalInv, NEW r \in Rpcs,
         \/ IncomingCall(r) \/ RequestFails(r) \/ ClientSends(r)
         \/ ClientWritesDone(r) \/ ReadFails(r) \/ WriteCompletes(r)
         \/ FinishCompletes(r) \/ CallIsDone(r) \/ ClientCancels(r)
  PROVE RemovalInv'
<1>1. /\ fault = "none"
      /\ UNCHANGED <<created, active, handler, pending, grpc_shutdown,
                     service_shutting_down, cq_drained, writer_pc, writer_rpc,
                     writes, event_queue>>
  BY GrpcFrame, Zenon
<1>2. \/ grpc_shutdown
      \/ tag' = tag
      \/ \E e \in CqEvent, v \in TagState :
           /\ tag' = [tag EXCEPT ![r][e] = v]
           /\ e # "NEW_CONNECTION" \/ v # "failed"
  <2>1. \A e \in CqEvent : e \in {"NEW_CONNECTION", "READ", "WRITE", "FINISH", "DONE"}
    BY DEF CqEvent
  <2>2. {"ok", "failed"} \subseteq TagState
    BY DEF TagState
  <2>3. /\ IncomingCall(r) => tag' = [tag EXCEPT ![r]["NEW_CONNECTION"] = "ok"]
        /\ RequestFails(r) => grpc_shutdown
        /\ ClientSends(r) => tag' = [tag EXCEPT ![r]["READ"] = "ok"]
        /\ ClientWritesDone(r) => tag' = [tag EXCEPT ![r]["READ"] = "failed"]
        /\ ReadFails(r) => tag' = [tag EXCEPT ![r]["READ"] = "failed"]
        /\ WriteCompletes(r) => \/ tag' = [tag EXCEPT ![r]["WRITE"] = "ok"]
                                \/ tag' = [tag EXCEPT ![r]["WRITE"] = "failed"]
        /\ FinishCompletes(r) => \/ tag' = [tag EXCEPT ![r]["FINISH"] = "ok"]
                                 \/ tag' = [tag EXCEPT ![r]["FINISH"] = "failed"]
        /\ CallIsDone(r) => tag' = [tag EXCEPT ![r]["DONE"] = "ok"]
        /\ ClientCancels(r) => tag' = tag
    BY Zenon DEF IncomingCall, RequestFails, ClientSends, ClientWritesDone,
       ReadFails, WriteCompletes, FinishCompletes, CallIsDone, ClientCancels,
       Complete
  <2>4. \A e \in {"READ", "WRITE", "FINISH", "DONE"} :
          e \in CqEvent /\ e # "NEW_CONNECTION"
    BY DEF CqEvent
  <2>5. "NEW_CONNECTION" \in CqEvent /\ "ok" # "failed"
    BY DEF CqEvent
  <2>6. QED
    BY <2>2, <2>3, <2>4, <2>5, Zenon
<1>3. \A r2 \in Rpcs : tag'[r2]["NEW_CONNECTION"] = "failed"
        => tag[r2]["NEW_CONNECTION"] = "failed" \/ grpc_shutdown
  <2>1. tag \in [Rpcs -> [CqEvent -> TagState]] /\ "NEW_CONNECTION" \in CqEvent
    BY DEF TagInv, TypeOK, CqEvent
  <2>2. ASSUME NEW e \in CqEvent, NEW v \in TagState,
               tag' = [tag EXCEPT ![r][e] = v],
               e # "NEW_CONNECTION" \/ v # "failed", NEW r2 \in Rpcs,
               tag'[r2]["NEW_CONNECTION"] = "failed"
        PROVE tag[r2]["NEW_CONNECTION"] = "failed"
    BY <2>1, <2>2, SMT
  <2>3. QED
    BY <1>2, <2>2, Zenon
<1>4. QED
  BY <1>1, <1>3, FramePreservesRemoval, Zenon DEF RemovalInv, ShutdownOrder

LEMMA CompletionPreservesRemoval ==
  ASSUME TagInv, RemovalInv, NEW r \in Rpcs, NEW e \in CqEvent,
         RunCompletionQueue(r, e)
  PROVE RemovalInv'
<1>1. /\ fault = "none"
      /\ UNCHANGED <<created, active, handler, pending, grpc_shutdown,
                     service_shutting_down, cq_drained, writer_pc, writer_rpc,
                     writes>>
  BY CompletionFrame, Zenon
<1>2. /\ tag \in [Rpcs -> [CqEvent -> TagState]] /\ "NEW_CONNECTION" \in CqEvent
      /\ TypeOK
  BY DEF TagInv, TypeOK, CqEvent
<1>3. CASE tag' = tag /\ event_queue' = event_queue
  BY <1>1, <1>3, FramePreservesRemoval, Zenon DEF RemovalInv, ShutdownOrder
<1>4. CASE ~(tag' = tag /\ event_queue' = event_queue)
  <2> DEFINE ev == [rpc |-> r, event |-> e, ok |-> tag[r][e] = "ok"]
  <2>1. /\ tag' = [tag EXCEPT ![r][e] = "queued"]
        /\ event_queue' = [event_queue EXCEPT ![queue[r]] = Append(@, ev)]
        /\ tag[r][e] \in {"ok", "failed"}
    BY <1>4, Zenon DEF RunCompletionQueue
  <2>2. \A r2 \in Rpcs : tag'[r2]["NEW_CONNECTION"] = "failed"
          => tag[r2]["NEW_CONNECTION"] = "failed"
    <3>1. \A r2 \in Rpcs \ {r} : tag'[r2] = tag[r2]
      BY <1>2, <2>1, Zenon
    <3>2. tag'[r] = [tag[r] EXCEPT ![e] = "queued"]
      BY <1>2, <2>1, Zenon
    <3>3. tag'[r]["NEW_CONNECTION"] \in {"queued", tag[r]["NEW_CONNECTION"]}
      BY <1>2, <3>2, Zenon
    <3>4. QED
      BY <3>1, <3>3, Zenon
  <2>3. ev \in QueuedEvent /\ ev.rpc = r /\ ev.event = e
    BY DEF QueuedEvent, Event
  <2>4. ev.event = "NEW_CONNECTION" /\ ~ev.ok => grpc_shutdown
    <3>1. ~ev.ok => tag[r][e] = "failed"
      BY <2>1, Zenon
    <3>2. tag[r]["NEW_CONNECTION"] = "failed" => grpc_shutdown
      BY Zenon DEF RemovalInv, ShutdownOrder
    <3>3. QED
      BY <2>3, <3>1, <3>2
  <2> HIDE DEF ev
  <2>5. ASSUME NEW q \in EventQueues, NEW i \in 1..Len(event_queue'[q])
        PROVE \/ event_queue'[q][i] = ev
              \/ /\ i \in 1..Len(event_queue[q])
                 /\ event_queue'[q][i] = event_queue[q][i]
    <3>1. Pushed(r, ev.event)
      BY <1>2, <2>1, <2>3, AppendPushes, Zenon
    <3>2. i \notin 1..Len(event_queue[q]) => event_queue'[q][i] = ev
      <4>1. \A q2 \in EventQueues : \A j \in 1..Len(event_queue'[q2]) :
              j \notin 1..Len(event_queue[q2]) => event_queue'[q2][j] = ev
        BY <1>2, <2>1, <2>3, AppendPushes, Zenon
      <4>2. QED
        BY <4>1, Zenon
    <3>3. QED
      BY <3>1, <3>2, Zenon DEF Pushed
  <2>6. \A q \in EventQueues : \A i \in 1..Len(event_queue'[q]) :
          (event_queue'[q][i].event = "NEW_CONNECTION" /\ ~event_queue'[q][i].ok)
            => grpc_shutdown
    BY <2>4, <2>5, Zenon DEF RemovalInv, ShutdownOrder
  <2>7. QED
    BY <1>1, <2>2, <2>6, FramePreservesRemoval, Zenon
<1>5. QED
  BY <1>3, <1>4, Zenon

LEMMA WriterCounts ==
  ASSUME TagInv, RemovalInv, NEW w \in Writers, WriterStep(w)
  PROVE writes' # 0
<1>1. CASE writer_pc[w] # "idle"
  <2>1. writes # 0
    BY <1>1, Zenon DEF RemovalInv, RemovedAtTheEnd
  <2>2. writes' = writes
    BY <1>1, Zenon DEF WriterStep, WriterEnqueue, WriterNotify, WriterReturn
  <2>3. QED
    BY <2>1, <2>2, Zenon
<1>2. CASE writer_pc[w] = "idle"
  <2>1. writes' = writes + 1
    BY <1>2, Zenon DEF WriterStep, WriterEnqueue, WriterNotify, WriterReturn
  <2>2. QED
    BY <2>1, SizeAssumption DEF TagInv, TypeOK
<1>3. QED
  BY <1>1, <1>2, Zenon

LEMMA WriterPreservesRemoval ==
  ASSUME TagInv, RemovalInv, NEW w \in Writers, WriterStep(w)
  PROVE RemovalInv'
<1>1. /\ created' = created /\ active' = active /\ handler' = handler
      /\ pending' = pending /\ tag' = tag /\ grpc_shutdown' = grpc_shutdown
      /\ service_shutting_down' = service_shutting_down
      /\ cq_drained' = cq_drained /\ fault = "none"
  BY WriterFrame, Zenon
<1>2. TypeOK
  BY Zenon DEF TagInv
<1>3. ShutdownOrder'
  <2>1. CASE event_queue' = event_queue
    BY <1>1, <2>1, Zenon DEF RemovalInv, ShutdownOrder
  <2>2. CASE event_queue' # event_queue
    <3>1. /\ writer_rpc[w] \in active
          /\ event_queue' = [event_queue EXCEPT ![queue[writer_rpc[w]]] =
                               @ \o WriteNeeded(writer_rpc[w], <<"MSG">>)]
      BY <2>2, Zenon DEF WriterStep, WriterEnqueue, WriterNotify, WriterReturn,
         threadVars
    <3>2. PICK r \in Rpcs : r = writer_rpc[w]
      BY <1>2, <3>1, ActiveRpcs, Zenon
    <3>0. event_queue' = [event_queue EXCEPT ![queue[r]] =
                            @ \o WriteNeeded(r, <<"MSG">>)]
      BY <3>1, <3>2, Zenon
    <3>3. ASSUME NEW q \in EventQueues, NEW i \in 1..Len(event_queue'[q]),
                 event_queue'[q][i].event = "NEW_CONNECTION",
                 ~event_queue'[q][i].ok
          PROVE grpc_shutdown
      <4>0. \/ event_queue'[q][i].event = "WRITE_NEEDED"
            \/ /\ i \in 1..Len(event_queue[q])
               /\ event_queue'[q][i] = event_queue[q][i]
        <5>1. \A q2 \in EventQueues : \A j \in 1..Len(event_queue'[q2]) :
                \/ /\ q2 = queue[r]
                   /\ event_queue'[q2][j].rpc = r
                   /\ event_queue'[q2][j].event = "WRITE_NEEDED"
                \/ /\ j \in 1..Len(event_queue[q2])
                   /\ event_queue'[q2][j] = event_queue[q2][j]
          BY <1>2, <3>0, NotifyPushes, Zenon
        <5>2. QED
          BY <5>1, Zenon
      <4>1. /\ i \in 1..Len(event_queue[q])
            /\ event_queue'[q][i] = event_queue[q][i]
        BY <3>3, <4>0
      <4>2. QED
        BY <3>3, <4>1, Zenon DEF RemovalInv, ShutdownOrder
    <3>4. QED
      BY <1>1, <3>3, Zenon DEF RemovalInv, ShutdownOrder
  <2>3. QED
    BY <2>1, <2>2, Zenon
<1>4. OnlyRefusedWhenStopped'
  BY <1>1, Zenon DEF RemovalInv, OnlyRefusedWhenStopped
<1>5. writes' # 0
  BY WriterCounts, Zenon
<1>6. QED
  BY <1>3, <1>4, <1>5, Zenon DEF RemovalInv, RemovedAtTheEnd

LEMMA ListenAgainPreservesRemoval ==
  ASSUME TagInv, RemovalInv, NEW q \in EventQueues, ListenAgain(q)
  PROVE RemovalInv'
<1>1. TypeOK
  BY Zenon DEF TagInv
<1>2. PICK new \in Rpcs : new = created + 1
  BY <1>1, Sizes DEF ListenAgain, TypeOK, Rpcs
<1>3. \A r \in 1..created' : r = new \/ r \in 1..created
  BY <1>1, <1>2 DEF ListenAgain, TypeOK
<1>4. /\ pending' = [pending EXCEPT ![new] = {"DONE", "NEW_CONNECTION"}]
      /\ tag' = [tag EXCEPT ![new] =
                   [e \in CqEvent |-> IF e \in {"DONE", "NEW_CONNECTION"}
                                      THEN "started" ELSE "idle"]]
      /\ active' = active \cup {new}
      /\ handler' = handler /\ event_queue' = event_queue
      /\ writer_pc' = writer_pc /\ writer_rpc' = writer_rpc /\ writes' = writes
      /\ fault = "none" /\ grpc_shutdown' = grpc_shutdown
      /\ service_shutting_down' = service_shutting_down
      /\ cq_drained' = cq_drained
  BY <1>2, Zenon DEF ListenAgain, RequestNextMethodInvocation, writerVars
<1>5. \A r \in Rpcs : tag'[r]["NEW_CONNECTION"] = "failed"
        => tag[r]["NEW_CONNECTION"] = "failed"
  <2>1. tag \in [Rpcs -> [CqEvent -> TagState]] /\ "NEW_CONNECTION" \in CqEvent
    BY <1>1 DEF TypeOK, CqEvent
  <2>2. tag'[new]["NEW_CONNECTION"] = "started"
    BY <1>4, <2>1, Zenon
  <2>3. \A r \in Rpcs : r # new => tag'[r] = tag[r]
    BY <1>4, <2>1, Zenon
  <2>4. QED
    BY <2>2, <2>3
<1>6. ShutdownOrder'
  BY <1>4, <1>5, Zenon DEF RemovalInv, ShutdownOrder
<1>7. OnlyRefusedWhenStopped'
  BY <1>3, <1>4, Zenon DEF RemovalInv, OnlyRefusedWhenStopped
<1>8. RemovedAtTheEnd'
  <2>1. \A r \in Rpcs : r # new => pending'[r] = pending[r]
    BY <1>1, <1>4, Zenon DEF TypeOK
  <2>2. \A r \in 1..created : r \in Rpcs
    BY <1>1, Sizes DEF TypeOK, Rpcs
  <2>3. QED
    BY <1>3, <1>4, <2>1, <2>2, Zenon DEF RemovalInv, RemovedAtTheEnd
<1>9. QED
  BY <1>6, <1>7, <1>8, Zenon DEF RemovalInv

LEMMA EventPreservesRemoval ==
  ASSUME TagInv, LifeInv, TagInv', LifeInv', RemovalInv, NEW q \in EventQueues,
         EventStep(q)
  PROVE RemovalInv'
<1>1. TypeOK /\ EventEffects(q) /\ LifeEffects(q)
  BY EventIsHandled, EventLife, Zenon DEF TagInv
<1>2. event_queue[q] # <<>>
  BY <1>1, Zenon DEF EventEffects
<1>3. PICK ops \in SUBSET CqEvent : Handled(q, ops)
  BY <1>1, Zenon DEF EventEffects
<1>4. PICK ev \in QueuedEvent : ev = Head(event_queue[q])
  BY <1>1, <1>2, HeadType, Zenon
<1>5. PICK r \in Rpcs : r = ev.rpc
  BY <1>2, <1>4, HeadOfQueue, Zenon
<1>6. /\ \A e \in CqEvent :
           /\ e \in ops => tag'[r][e] = "started"
           /\ e \notin ops /\ e = ev.event => tag'[r][e] = "idle"
           /\ e \notin ops /\ e # ev.event => tag'[r][e] = tag[r][e]
      /\ pending'[r] = (pending[r] \ {ev.event}) \cup ops
      /\ \A r2 \in Rpcs \ {r} : tag'[r2] = tag[r2] /\ pending'[r2] = pending[r2]
  <2>1. FlagsAfter(r, ev, ops)
    BY <1>1, <1>3, <1>4, <1>5, HandledFlags, Zenon
  <2>2. QED
    BY <2>1, Zenon DEF FlagsAfter
<1>7. /\ fault = "none" /\ created' = created
      /\ grpc_shutdown' = grpc_shutdown /\ cq_drained' = cq_drained
      /\ service_shutting_down' = service_shutting_down
      /\ writer_pc' = writer_pc /\ writer_rpc' = writer_rpc /\ writes' = writes
  <2>1. RunEventQueue(q)
    BY Zenon DEF EventStep, RunEventQueue
  <2>2. created' = created
    BY <1>1, Zenon DEF EventEffects
  <2>3. QED
    BY <2>1, <2>2, EventFrame, Zenon
<1>8. /\ \A r2 \in Rpcs \ {r} : handler'[r2] = handler[r2]
      /\ PopAndPush(q, r)
  BY <1>3, <1>4, <1>5, Zenon DEF Handled
<1>9. \A r2 \in Rpcs \ {r} : r2 \in active' <=> r2 \in active
  BY <1>1, <1>4, <1>5, Zenon DEF LifeEffects
<1>10. \A r2 \in 1..created : r2 \in Rpcs
  BY <1>1, Sizes DEF TypeOK, Rpcs
<1>11. "NEW_CONNECTION" \in CqEvent /\ "NEW_CONNECTION" \notin ops
  <2>1. ops \subseteq {"READ", "WRITE", "FINISH"}
    BY <1>3, Zenon DEF Handled
  <2>2. QED
    BY <2>1 DEF CqEvent
<1>12. ShutdownOrder'
  <2>1. \A r2 \in Rpcs : tag'[r2]["NEW_CONNECTION"] = "failed"
          => tag[r2]["NEW_CONNECTION"] = "failed"
    BY <1>6, <1>11
  <2>2. ASSUME NEW q2 \in EventQueues, NEW i \in 1..Len(event_queue'[q2]),
               event_queue'[q2][i].event = "NEW_CONNECTION",
               ~event_queue'[q2][i].ok
        PROVE grpc_shutdown
    <3>1. event_queue'[q2][i].event \in CqEvent
      BY <1>11, <2>2, Zenon
    <3>2. /\ i + Shift(q2, q) \in 1..Len(event_queue[q2])
          /\ event_queue'[q2][i] = event_queue[q2][i + Shift(q2, q)]
      BY <1>8, <3>1, OldEvents, Zenon
    <3>3. QED
      BY <2>2, <3>2, Zenon DEF RemovalInv, ShutdownOrder
  <2>3. QED
    BY <1>7, <2>1, <2>2, Zenon DEF RemovalInv, ShutdownOrder
<1>13. /\ ev.event \in CqEvent => ev.event \in pending[r]
       /\ ev.event = "NEW_CONNECTION" => handler[r] = "null"
       /\ ev.event = "DONE" => "NEW_CONNECTION" \notin pending[r]
  BY <1>2, <1>4, <1>5, HeadLife, Zenon
<1>14. RpcLife(r) /\ RpcLife(r)'
  BY Zenon DEF LifeInv
<1>15. handler'[r] = "null" => handler[r] = "null"
  <2>1. ev.event \in {"NEW_CONNECTION"} \/ handler'[r] \in {handler[r], "reads_done"}
    BY <1>1, <1>4, <1>5, Zenon DEF LifeEffects
  <2>2. QED
    BY <1>13, <2>1
<1>16. ASSUME r \in active, r \notin active', handler'[r] = "null",
              fault' = "none"
       PROVE service_shutting_down
  <2>1. CASE ev.event = "NEW_CONNECTION"
    <3>1. RefuseConnection(q) \/ AcceptConnection(q)
      BY <1>4, <2>1, Zenon DEF EventStep, HandleRequest, HandleReadsDone, HandleWrite,
         HandleFinishOrDone, IgnoreStaleEvent, NextEventIn
    <3>2. ASSUME AcceptConnection(q) PROVE FALSE
      BY <1>16, <3>2 DEF AcceptConnection
    <3>3. QED
      BY <3>1, <3>2, ZenonT(40) DEF RefuseConnection
  <2>2. CASE ev.event # "NEW_CONNECTION"
    <3>1. ~IsAnyEventPending(pending'[r])
      BY <1>1, <1>4, <1>5, <1>16, <2>2, Zenon DEF LifeEffects
    <3>2. /\ "NEW_CONNECTION" \in pending[r] /\ "DONE" \in pending[r]
      BY <1>14, <1>15, <1>16, Zenon DEF RpcLife
    <3>3. "DONE" \in pending'[r]
      BY <1>6, <1>13, <3>2
    <3>4. QED
      BY <3>1, <3>3 DEF IsAnyEventPending
  <2>3. QED
    BY <2>1, <2>2, Zenon
<1>17. OnlyRefusedWhenStopped'
  <2> SUFFICES ASSUME NEW r2 \in 1..created, r2 \notin active',
                      handler'[r2] = "null", fault' = "none"
               PROVE service_shutting_down
    BY <1>7, Zenon DEF OnlyRefusedWhenStopped
  <2>1. CASE r2 # r
    BY <1>7, <1>8, <1>9, <1>10, <2>1, Zenon DEF RemovalInv, OnlyRefusedWhenStopped
  <2>2. CASE r2 = r
    BY <1>7, <1>15, <1>16, <2>2, Zenon DEF RemovalInv, OnlyRefusedWhenStopped
  <2>3. QED
    BY <2>1, <2>2, Zenon
<1>18. ASSUME writes = 0, r \in 1..created, r \notin active',
              handler'[r] # "null"
       PROVE pending'[r] = {}
  <2>1. Alive(r) <=> r \in active
    <3>1. r # NoRpc
      BY <1>1, <1>18 DEF TypeOK, NoRpc
    <3>2. \A w \in Writers : writer_rpc[w] = NoRpc
      BY <1>18, Zenon DEF RemovalInv, RemovedAtTheEnd
    <3>3. QED
      BY <3>1, <3>2, Zenon DEF Alive
  <2>2. CASE ev.event = "NEW_CONNECTION"
    <3>1. r \in active
      BY <1>1, <1>4, <1>5, <1>11, <2>1, <2>2, Zenon DEF LifeEffects
    <3>2. handler'[r] = handler[r]
      BY <1>1, <1>4, <1>5, <1>18, <2>2, <3>1, Zenon DEF LifeEffects
    <3>3. QED
      BY <1>13, <1>18, <2>2, <3>2, Zenon
  <2>3. CASE ev.event # "NEW_CONNECTION" /\ r \in active
    <3>1. ~IsAnyEventPending(pending'[r])
      BY <1>1, <1>4, <1>5, <1>18, <2>3, Zenon DEF LifeEffects
    <3>2. "NEW_CONNECTION" \notin pending'[r]
      BY <1>14, <1>18, Zenon DEF RpcLife
    <3>3. pending'[r] \subseteq CqEvent
      BY DEF TagInv, TypeOK
    <3>4. QED
      BY <3>1, <3>2, <3>3 DEF IsAnyEventPending, CqEvent
  <2>4. CASE r \notin active
    <3>1. ~Alive(Head(event_queue[q]).rpc)
      BY <1>4, <1>5, <2>1, <2>4, Zenon
    <3>2. IgnoreStaleEvent(q)
      BY <3>1, Zenon DEF EventStep, RefuseConnection, AcceptConnection,
         HandleRequest, HandleReadsDone, HandleWrite, HandleFinishOrDone
    <3>3. pending' = pending /\ handler' = handler
      BY <3>2, Zenon DEF IgnoreStaleEvent, rpcVars
    <3>4. QED
      BY <1>18, <2>4, <3>3, Zenon DEF RemovalInv, RemovedAtTheEnd
  <2>5. QED
    BY <2>2, <2>3, <2>4, Zenon
<1>19. RemovedAtTheEnd'
  <2>1. ASSUME writes = 0, NEW r2 \in 1..created, r2 \notin active',
               handler'[r2] # "null"
        PROVE pending'[r2] = {}
    <3>1. CASE r2 = r
      BY <1>18, <2>1, <3>1, Zenon
    <3>2. CASE r2 # r
      BY <1>6, <1>8, <1>9, <1>10, <2>1, <3>2, Zenon
         DEF RemovalInv, RemovedAtTheEnd
    <3>3. QED
      BY <3>1, <3>2, Zenon
  <2>2. QED
    BY <1>7, <2>1, Zenon DEF RemovalInv, RemovedAtTheEnd
<1>20. QED
  BY <1>12, <1>17, <1>19, Zenon DEF RemovalInv

LEMMA StopPreservesRemoval ==
  ASSUME TagInv, RemovalInv, Stop
  PROVE RemovalInv'
<1>1. /\ created' = created /\ active' = active /\ handler' = handler
      /\ pending' = pending /\ tag' = tag /\ event_queue' = event_queue
      /\ writer_pc' = writer_pc /\ writer_rpc' = writer_rpc /\ writes' = writes
      /\ fault = "none"
      /\ grpc_shutdown => grpc_shutdown'
      /\ service_shutting_down => service_shutting_down'
  BY StopFrame, Zenon
<1>2. /\ cq_drained' # {} => grpc_shutdown'
      /\ grpc_shutdown' => service_shutting_down'
  <2>1. CASE created > 0 /\ StopServing
    <3>1. /\ cq_drained' = cq_drained /\ grpc_shutdown' = grpc_shutdown
          /\ service_shutting_down'
      BY <2>1, SMT DEF StopServing, grpcVars
    <3>2. QED
      BY <3>1, Zenon DEF RemovalInv, ShutdownOrder
  <2>2. CASE service_shutting_down /\ GrpcShutdown
    BY <2>2, SMT DEF GrpcShutdown
  <2>3. CASE \E c \in Cqs : CqDrained(c)
    <3>1. /\ grpc_shutdown /\ grpc_shutdown' = grpc_shutdown
          /\ service_shutting_down' = service_shutting_down
      BY <2>3, Zenon DEF CqDrained
    <3>2. service_shutting_down
      BY <3>1, Zenon DEF RemovalInv, ShutdownOrder
    <3>3. QED
      BY <3>1, <3>2, SMT
  <2>4. CASE cq_drained = Cqs /\ DestroyService
    <3>1. /\ cq_drained' = cq_drained /\ grpc_shutdown' = grpc_shutdown
          /\ service_shutting_down' = service_shutting_down
      BY <2>4, Zenon DEF DestroyService, grpcVars
    <3>2. /\ cq_drained # {} => grpc_shutdown
          /\ grpc_shutdown => service_shutting_down
      BY Zenon DEF RemovalInv, ShutdownOrder
    <3>3. QED
      BY <3>1, <3>2, SMT
  <2>5. QED
    BY <2>1, <2>2, <2>3, <2>4, Zenon DEF Stop
<1>3. ShutdownOrder'
  BY <1>1, <1>2, Zenon DEF RemovalInv, ShutdownOrder
<1>4. OnlyRefusedWhenStopped'
  BY <1>1, Zenon DEF RemovalInv, OnlyRefusedWhenStopped
<1>5. RemovedAtTheEnd'
  BY <1>1, Zenon DEF RemovalInv, RemovedAtTheEnd
<1>6. QED
  BY <1>3, <1>4, <1>5, Zenon DEF RemovalInv

LEMMA StartPreservesRemoval ==
  ASSUME TagInv, RemovalInv, StartServing
  PROVE RemovalInv'
<1>1. /\ TypeOK /\ created' = NumListeners /\ active' = Listeners
      /\ handler' = handler /\ event_queue' = event_queue
      /\ writer_pc' = writer_pc /\ writer_rpc' = writer_rpc /\ writes' = writes
      /\ fault' = fault /\ grpc_shutdown' = grpc_shutdown
      /\ service_shutting_down' = service_shutting_down
      /\ cq_drained' = cq_drained
  BY Zenon DEF TagInv, StartServing, writerVars
<1>2. \A r \in 1..created' : r \in active'
  BY <1>1, Zenon DEF Listeners
<1>3. \A r \in Rpcs : tag'[r]["NEW_CONNECTION"] = "failed"
        => tag[r]["NEW_CONNECTION"] = "failed"
  <2>1. \A r \in Rpcs : \A e \in CqEvent :
          tag'[r][e] = IF r \in Listeners /\ e \in {"DONE", "NEW_CONNECTION"}
                       THEN "started" ELSE tag[r][e]
    BY Zenon DEF StartServing
  <2>2. QED
    BY <2>1 DEF CqEvent
<1>4. QED
  BY <1>1, <1>2, <1>3, Zenon
     DEF RemovalInv, ShutdownOrder, OnlyRefusedWhenStopped, RemovedAtTheEnd

LEMMA RemovalInvInit ==
  ASSUME Init
  PROVE RemovalInv
<1>1. \A r \in Rpcs : tag[r]["NEW_CONNECTION"] = "idle"
  BY DEF Init, CqEvent
<1>2. \A q \in EventQueues : event_queue[q] = <<>>
  BY Zenon DEF Init
<1>3. 1..created = {}
  BY DEF Init
<1>4. ShutdownOrder
  <2>1. \A q \in EventQueues : 1..Len(event_queue[q]) = {}
    BY <1>2
  <2>2. ~grpc_shutdown /\ cq_drained = {}
    BY DEF Init
  <2>3. QED
    BY <1>1, <2>1, <2>2 DEF ShutdownOrder
<1>5. RemovedAtTheEnd
  BY <1>3, Zenon DEF Init, RemovedAtTheEnd
<1>6. QED
  BY <1>3, <1>4, <1>5, Zenon DEF RemovalInv, OnlyRefusedWhenStopped

LEMMA RemovalInvNext ==
  ASSUME TagInv, LifeInv, TagInv', LifeInv', RemovalInv, [Next]_vars
  PROVE RemovalInv'
<1>1. ASSUME NEW q \in EventQueues, HandleEventOfDestroyedRpc(q)
      PROVE RemovalInv'
  <2>1. /\ created' = created /\ active' = active /\ handler' = handler
        /\ pending' = pending /\ tag' = tag /\ event_queue' = event_queue
        /\ writer_pc' = writer_pc /\ writer_rpc' = writer_rpc
        /\ writes' = writes /\ fault = "none" /\ grpc_shutdown' = grpc_shutdown
        /\ service_shutting_down' = service_shutting_down
        /\ cq_drained' = cq_drained
    BY <1>1, Zenon DEF HandleEventOfDestroyedRpc, NextEventIn, rpcVars,
       threadVars, grpcVars, writerVars
  <2>2. QED
    BY <2>1, FramePreservesRemoval, Zenon DEF RemovalInv, ShutdownOrder
<1>2. ASSUME UNCHANGED vars PROVE RemovalInv'
  <2>1. /\ created' = created /\ active' = active /\ handler' = handler
        /\ pending' = pending /\ tag' = tag /\ event_queue' = event_queue
        /\ writer_pc' = writer_pc /\ writer_rpc' = writer_rpc
        /\ writes' = writes /\ fault' = fault /\ grpc_shutdown' = grpc_shutdown
        /\ service_shutting_down' = service_shutting_down
        /\ cq_drained' = cq_drained
    BY <1>2, Zenon DEF vars, rpcVars, threadVars, grpcVars, writerVars
  <2>2. ShutdownOrder'
    BY <2>1, Zenon DEF RemovalInv, ShutdownOrder
  <2>3. OnlyRefusedWhenStopped' /\ RemovedAtTheEnd'
    BY <2>1, Zenon DEF RemovalInv, OnlyRefusedWhenStopped, RemovedAtTheEnd
  <2>4. QED
    BY <2>2, <2>3, Zenon DEF RemovalInv
<1>3. QED
  BY <1>1, <1>2, NextCases, StartPreservesRemoval, EventPreservesRemoval,
     ListenAgainPreservesRemoval, WriterPreservesRemoval, GrpcPreservesRemoval,
     CompletionPreservesRemoval, StopPreservesRemoval, Zenon

\* Connections fail only when gRPC is shut down, which the service is told of
\* before; an Rpc is removed without a call only then (HandleNewConnection), and
\* otherwise when nothing of it is pending (RemoveIfNotPending).
THEOREM RemovalInvariant == Spec => []RemovalInv
<1>1. TagInv /\ LifeInv /\ RemovalInv /\ TagInv' /\ LifeInv' /\ [Next]_vars
        => RemovalInv'
  BY RemovalInvNext, Zenon
<1>2. Init => RemovalInv
  BY RemovalInvInit, Zenon
<1>3. QED
  BY <1>1, <1>2, TagInvariant, LifeInvariant, PTL DEF Spec

\* When an Rpc that served a call is gone, gRPC and the event queues hold none
\* of its tags: RemoveIfNotPending waited for all operations of the call.  A
\* Writer that still holds the Rpc may start a WRITE after its removal, so this
\* is about Rpcs that are only written to by their handlers.
THEOREM RemovedRpcsHaveNoTags ==
  Spec => [](writes = 0 => ServedRpcOutlivesItsTags)
<1>1. TagInv /\ RemovalInv => (writes = 0 => ServedRpcOutlivesItsTags)
  <2> SUFFICES ASSUME TagInv, RemovalInv, writes = 0, NEW r \in 1..created,
                      handler[r] # "null", ~Alive(r), NEW e \in CqEvent
               PROVE tag[r][e] = "idle"
    BY Zenon DEF ServedRpcOutlivesItsTags
  <2>1. r \in Rpcs
    BY Sizes DEF TagInv, TypeOK, Rpcs
  <2>2. pending[r] = {}
    BY Zenon DEF RemovalInv, RemovedAtTheEnd, Alive
  <2>3. QED
    BY <2>1, <2>2 DEF TagInv, UsedTagsArePending
<1>2. QED
  BY <1>1, TagInvariant, RemovalInvariant, PTL

\* Something of a destroyed Rpc is still to come only when it was refused.
LEMMA OnlyRefusedRpcsAreMissed ==
  ASSUME TagInv, RemovalInv, fault = "none", writes = 0, NEW r \in 1..created,
         ~Alive(r), NEW e \in CqEvent, tag[r][e] # "idle"
  PROVE service_shutting_down
<1>1. r \in Rpcs
  BY ActiveRpcs, Zenon DEF TagInv
<1>2. pending[r] # {}
  BY <1>1 DEF TagInv, UsedTagsArePending
<1>3. r \notin active
  BY Zenon DEF Alive
<1>4. handler[r] = "null"
  BY <1>2, <1>3, Zenon DEF RemovalInv, RemovedAtTheEnd
<1>5. QED
  BY <1>3, <1>4, Zenon DEF RemovalInv, OnlyRefusedWhenStopped
=============================================================================
