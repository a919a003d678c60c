---------------------------- MODULE RpcInvariant ----------------------------
(***************************************************************************)
(* The inductive invariants of RpcService behind its safety properties,    *)
(* and what the handlers of events have in common.  The proofs are in      *)
(* RpcServiceProofs (TagInv) and RpcLifeProofs (LifeInv, RemovalInv).      *)
(***************************************************************************)
EXTENDS RpcService

\* Events, threads and Writers refer only to Rpcs that have been constructed,
\* and the others are as they were at the beginning.
OnlyCreatedRpcs ==
  /\ \A q \in EventQueues : \A i \in 1..Len(event_queue[q]) :
       event_queue[q][i].rpc \in 1..created
  /\ \A q \in EventQueues : relisten[q] # NoRpc => relisten[q] \in 1..created
  /\ \A w \in Writers : writer_rpc[w] # NoRpc => writer_rpc[w] \in 1..created
  /\ \A r \in Rpcs : r \notin 1..created => /\ pending[r] = {}
                                            /\ send_queue[r] = <<>>
                                            /\ handler[r] = "null"

\* The tag of an event in an event queue is known to be there.
QueuedTags ==
  \A q \in EventQueues : \A i \in 1..Len(event_queue[q]) :
    event_queue[q][i].event \in CqEvent
      => tag[event_queue[q][i].rpc][event_queue[q][i].event] = "queued"

\* A tag that is in use has its 'pending' flag set.
UsedTagsArePending ==
  \A r \in Rpcs : \A e \in CqEvent : tag[r][e] # "idle" => e \in pending[r]

\* Nothing is read before the connection has been handled.
ConnectionComesFirst ==
  \A r \in Rpcs : "NEW_CONNECTION" \in pending[r] => tag[r]["READ"] = "idle"

\* The call of an Rpc with a pending FINISH is being finished.
PendingFinish ==
  \A r \in Rpcs : "FINISH" \in pending[r] => r \in finishing

TagInv ==
  /\ TypeOK
  /\ OnlyCreatedRpcs
  /\ OneThreadPerRpc
  /\ QueuedTags
  /\ EventObjectsAreNotShared
  /\ UsedTagsArePending
  /\ ConnectionComesFirst
  /\ PendingFinish
  /\ ReadsDoneIsFinal

-----------------------------------------------------------------------------
(* What the handlers of events have in common *)

\* The head of queue q is gone (nothing is, if there is no such queue), and all
\* that was pushed is WRITE_NEEDED for r.
Shift(q2, q) == IF q2 = q THEN 1 ELSE 0

PopAndPush(q, r) ==
  \A q2 \in EventQueues :
    /\ \A i \in 1..Len(event_queue'[q2]) :
         \/ /\ q2 = queue[r]
            /\ event_queue'[q2][i].rpc = r
            /\ event_queue'[q2][i].event = "WRITE_NEEDED"
         \/ /\ i + Shift(q2, q) \in 1..Len(event_queue[q2])
            /\ event_queue'[q2][i] = event_queue[q2][i + Shift(q2, q)]
    /\ \A i \in 1..Len(event_queue[q2]) :
         i > Shift(q2, q) =>
           /\ i - Shift(q2, q) \in 1..Len(event_queue'[q2])
           /\ event_queue'[q2][i - Shift(q2, q)] = event_queue[q2][i]

\* An event of queue q has been handled that started the operations in ops.
Handled(q, ops) ==
  LET ev == Head(event_queue[q]) r == ev.rpc IN
  /\ PopAndPush(q, r)
  /\ ops \subseteq {"READ", "WRITE", "FINISH"}
  /\ pending' = [pending EXCEPT ![r] = (@ \ {ev.event}) \cup ops]
  /\ tag' = [tag EXCEPT ![r] = [e \in CqEvent |-> IF e \in ops THEN "started"
                                                  ELSE TagsAfter(ev)[e]]]
  /\ \A r2 \in Rpcs \ {r} : handler'[r2] = handler[r2]
  /\ handler'[r] # handler[r] => ev.event \in {"NEW_CONNECTION", "READ"}
  /\ "READ" \in ops => \/ ev.event = "READ" /\ handler'[r] = handler[r]
                       \/ ev.event = "NEW_CONNECTION" /\ handler'[r] = "reading"
  /\ ops \cap {"WRITE", "FINISH"} # {}
       => {"WRITE", "FINISH"} \cap (pending[r] \ {ev.event}) = {}
  /\ finishing \subseteq finishing'
  /\ "FINISH" \in ops => r \in finishing'
  /\ fault' = "op_in_flight" => \E e \in ops : TagsAfter(ev)[e] # "idle"

\* Every step of an event thread that takes an event from its queue and finds
\* its Rpc alive, or the event stale, handles it as Handled says.
EventStep(q) ==
  \/ RefuseConnection(q)
  \/ AcceptConnection(q)
  \/ HandleRequest(q)
  \/ HandleReadsDone(q)
  \/ HandleWrite(q)
  \/ HandleFinishOrDone(q)
  \/ IgnoreStaleEvent(q)

\* What such a step does: it handles the event at the head, and its only other
\* effects are on the send queue of the Rpc and on the thread's own relisten.
EventEffects(q) ==
  LET r == Head(event_queue[q]).rpc IN
  /\ event_queue[q] # <<>>
  /\ relisten[q] = NoRpc
  /\ \E ops \in SUBSET CqEvent : Handled(q, ops)
  /\ UNCHANGED <<created, listener, queue, writerVars>>
  /\ \A r2 \in Rpcs \ {r} : send_queue'[r2] = send_queue[r2]
  /\ \/ relisten' = relisten
     \/ relisten' = [relisten EXCEPT ![q] = r]

-----------------------------------------------------------------------------
(* The life of an Rpc *)

InQueue(r, e) ==
  \E i \in 1..Len(event_queue[queue[r]]) :
    /\ event_queue[queue[r]][i].rpc = r
    /\ event_queue[queue[r]][i].event = e

RpcLife(r) ==
  \* A 'pending' flag means that the tag is in use, and a tag known to be in an
  \* event queue is there.
  /\ \A e \in pending[r] : tag[r][e] # "idle"
  /\ \A e \in CqEvent : tag[r][e] = "queued" => InQueue(r, e)
  \* gRPC does not complete DONE before it has returned the connection.
  /\ tag[r]["NEW_CONNECTION"] \in {"started", "ok", "failed"}
       => tag[r]["DONE"] = "started"
  /\ "NEW_CONNECTION" \in pending[r] => "DONE" \in pending[r]
  \* An Rpc stays in ActiveRpcs only as long as it waits for something.
  /\ r \in active => IsAnyEventPending(pending[r])
  /\ (r \in active /\ handler[r] = "null") => "NEW_CONNECTION" \in pending[r]
  \* There is a handler from the time the connection is handled, and only then
  \* something to read or to send.
  /\ handler[r] # "null"
       => "NEW_CONNECTION" \notin pending[r] /\ call[r] # "none"
  /\ handler[r] = "null" => /\ pending[r] \subseteq {"NEW_CONNECTION", "DONE"}
                            /\ send_queue[r] = <<>>
  /\ tag[r]["NEW_CONNECTION"] = "ok" => call[r] # "none"
  \* Neither DONE nor the removal of an Rpc comes before the end of the call.
  /\ (r \in 1..created /\ tag[r]["DONE"] # "started") => call[r] = "over"
  /\ (r \in 1..created /\ handler[r] # "null" /\ r \notin active)
       => call[r] = "over"

\* An event queue holds the connection of an Rpc before its DONE, and successful
\* connections have a call.
QueueLife(q) ==
  /\ \A i, j \in 1..Len(event_queue[q]) :
       (/\ event_queue[q][i].rpc = event_queue[q][j].rpc
        /\ event_queue[q][i].event = "NEW_CONNECTION"
        /\ event_queue[q][j].event = "DONE") => i < j
  /\ \A i \in 1..Len(event_queue[q]) :
       (event_queue[q][i].event = "NEW_CONNECTION" /\ event_queue[q][i].ok)
         => call[event_queue[q][i].rpc] # "none"

\* An Rpc about to be cloned waits for its connection no more.
RelistenLife(q) ==
  relisten[q] # NoRpc => "NEW_CONNECTION" \notin pending[relisten[q]]

\* A Writer is used on an Rpc with a handler.
WriterLife(w) ==
  /\ writer_rpc[w] # NoRpc => handler[writer_rpc[w]] # "null"
  /\ writer_pc[w] # "idle" => writer_rpc[w] # NoRpc

LifeInv ==
  /\ \A r \in Rpcs : RpcLife(r)
  /\ \A q \in EventQueues : QueueLife(q) /\ RelistenLife(q)
  /\ \A w \in Writers : WriterLife(w)

\* What a step of an event thread does to the life of the Rpc of its event.
LifeEffects(q) ==
  LET ev == Head(event_queue[q]) r == ev.rpc IN
  /\ ev.event \in CqEvent => Alive(r)
  /\ \/ /\ ev.event = "NEW_CONNECTION"
        /\ \/ active' = active /\ handler'[r] # "null" /\ ev.ok
           \/ active' = active \ {r} /\ handler' = handler
     \/ /\ ev.event # "NEW_CONNECTION"
        /\ relisten' = relisten
        /\ handler'[r] \in {handler[r], "reads_done"}
        /\ active' = IF IsAnyEventPending(pending'[r]) THEN active
                     ELSE active \ {r}
  /\ call' = call \/ call' = [call EXCEPT ![r] = "over"]
  /\ \/ send_queue[r] = <<>> /\ send_queue' = send_queue
     \/ send_queue[r] # <<>>
     \/ ev.event = "READ"
     \/ handler'[r] # "null"
  /\ "WRITE" \in pending'[r] => "WRITE" \in pending[r] \/ send_queue[r] # <<>>
  /\ "FINISH" \in pending'[r] => "FINISH" \in pending[r] \/ send_queue[r] # <<>>

\* What a push of event e of r does to the event queues.
Pushed(r, e) ==
  /\ \A q \in EventQueues :
       /\ \A i \in 1..Len(event_queue[q]) :
            /\ i \in 1..Len(event_queue'[q])
            /\ event_queue'[q][i] = event_queue[q][i]
       /\ \A i \in 1..Len(event_queue'[q]) :
            i \notin 1..Len(event_queue[q]) =>
              /\ q = queue[r]
              /\ event_queue'[q][i].rpc = r
              /\ event_queue'[q][i].event = e
              /\ \A j \in 1..Len(event_queue[q]) : j < i
  /\ \E i \in 1..Len(event_queue'[queue[r]]) :
       /\ event_queue'[queue[r]][i].rpc = r
       /\ event_queue'[queue[r]][i].event = e

-----------------------------------------------------------------------------
(* Shutdown and removal *)

\* gRPC is shut down after the service is stopped, and only then connections
\* fail and completion queues end.
ShutdownOrder ==
  /\ cq_drained # {} => grpc_shutdown
  /\ grpc_shutdown => service_shutting_down
  /\ \A r \in Rpcs : tag[r]["NEW_CONNECTION"] = "failed" => grpc_shutdown
  /\ \A q \in EventQueues : \A i \in 1..Len(event_queue[q]) :
       (event_queue[q][i].event = "NEW_CONNECTION" /\ ~event_queue[q][i].ok)
         => grpc_shutdown

\* Until the service is stopped an Rpc that has no handler is not removed.
OnlyRefusedWhenStopped ==
  \A r \in 1..created :
    (r \notin active /\ handler[r] = "null" /\ fault = "none")
      => service_shutting_down

\* Until a Writer is used, an Rpc that had a handler is removed when nothing is
\* pending, and nothing is started on it afterwards.
RemovedAtTheEnd ==
  writes = 0 =>
    /\ \A w \in Writers : writer_pc[w] = "idle" /\ writer_rpc[w] = NoRpc
    /\ \A r \in 1..created :
         (r \notin active /\ handler[r] # "null") => pending[r] = {}

RemovalInv == ShutdownOrder /\ OnlyRefusedWhenStopped /\ RemovedAtTheEnd
=============================================================================
