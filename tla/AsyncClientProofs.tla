------------------------- MODULE AsyncClientProofs --------------------------
(***************************************************************************)
(* Proofs about AsyncClient, for any clients, any number of queues and any *)
(* number of messages: a client does one thing at a time, and its callback *)
(* is invoked as AsyncCall says; its queue stays while it is in flight;    *)
(* and users that keep the rules are safe.                                 *)
(***************************************************************************)
EXTENDS AsyncClient, FiniteSetTheorems, TLAPS

-----------------------------------------------------------------------------
(* The inductive invariant.  It does not mention the pool: the protocol of *)
(* the callbacks does not depend on what happens to it.                    *)

\* What TypeOK says of the variables below; the status comes once.
CallTypes ==
  /\ client \in [Clients -> {"none", "initialize", "select", "ready", "called"}]
  /\ callback \in [Clients -> BOOLEAN]
  /\ tag \in [Clients -> [Event -> TagState]]
  /\ handling \in [Queues -> Handled \cup {Idle}]
  /\ messages \in [Clients -> 0..MaxMessages]
  /\ finals \in [Clients -> {0, 1}]

\* The thread of q runs a handler of c.
Runs(q, c) == handling[q] # Idle /\ handling[q].client = c

\* A client waits for one tag, or is in one handler, or neither.
OneOperation(c) ==
  /\ \A d, e \in Event : tag[c][d] # "idle" /\ tag[c][e] # "idle" => d = e
  /\ \A p, q \in Queues : Runs(p, c) /\ Runs(q, c) => p = q
  /\ \A q \in Queues, e \in Event : Runs(q, c) => tag[c][e] = "idle"

\* Nothing happens to a client that has not called WriteAsync.
OnlyCalled(c) ==
  client[c] # "called" =>
    /\ finals[c] = 0
    /\ \A e \in Event : tag[c][e] = "idle"
    /\ \A q \in Queues : ~Runs(q, c)

\* After its last invocation the callback is null, or about to be, or nothing
\* else will happen to the client.
LastIsLast(c) ==
  finals[c] # 0 =>
    /\ \A e \in Event : tag[c][e] # "idle" => ~callback[c]
    /\ \A q \in Queues : Runs(q, c) =>
         \/ ~callback[c]
         \/ ClearsCallback(c, handling[q].event, handling[q].ok)
         \/ NextOp(c, handling[q].event, handling[q].ok) = {}

\* gRPC does not deliver more than the stream has.
RoomForMessage(c) == tag[c]["READ"] = "ok" => messages[c] < MaxMessages

\* The part of the invariant that is about one client.
InvOf(c) ==
  OneOperation(c) /\ OnlyCalled(c) /\ LastIsLast(c) /\ RoomForMessage(c)

\* The inductive invariant.
CallInv ==
  /\ CallTypes
  /\ \A c \in Clients : InvOf(c)

-----------------------------------------------------------------------------
(* Lemmas *)

\* The event that a thread handles is not Idle.
LEMMA HandledIsNotIdle ==
  ASSUME NEW h \in Handled
  PROVE  h # Idle
<1>1. "event" \in DOMAIN h
  BY DEF Handled
<1>2. "event" \notin DOMAIN Idle
  BY DEF Idle
<1>3. QED
  BY <1>1, <1>2

\* A step that leaves a client alone preserves the invariant for that client.
LEMMA OtherClient ==
  ASSUME NEW d \in Clients, InvOf(d),
         tag'[d] = tag[d], callback'[d] = callback[d],
         messages'[d] = messages[d], finals'[d] = finals[d],
         client'[d] = "called" <=> client[d] = "called",
         \A q \in Queues : Runs(q, d)' => Runs(q, d) /\ handling'[q] = handling[q]
  PROVE  InvOf(d)'
<1>1. OneOperation(d)'
  BY DEF InvOf, OneOperation
<1>2. OnlyCalled(d)'
  BY DEF InvOf, OnlyCalled
<1>3. LastIsLast(d)'
  BY DEF InvOf, LastIsLast, ClearsCallback, NextOp
<1>4. RoomForMessage(d)'
  BY DEF InvOf, RoomForMessage
<1>5. QED
  BY <1>1, <1>2, <1>3, <1>4 DEF InvOf

\* A step that is about the pool, a constructor or a destructor.
Quiet ==
  /\ UNCHANGED <<callback, tag, handling, messages, finals>>
  /\ client' \in [Clients -> {"none", "initialize", "select", "ready", "called"}]
  /\ \A c \in Clients : client'[c] = "called" <=> client[c] = "called"

\* Such a step preserves the invariant.
LEMMA QuietInv ==
  ASSUME CallInv, Quiet
  PROVE  CallInv'
<1>1. CallTypes'
  BY Zenon DEF CallInv, CallTypes, Quiet
<1>2. ASSUME NEW d \in Clients PROVE InvOf(d)'
  <2>1. InvOf(d)
    BY DEF CallInv
  <2>2. \A q \in Queues : Runs(q, d)' => Runs(q, d) /\ handling'[q] = handling[q]
    BY DEF Quiet, Runs
  <2>3. QED
    BY <2>1, <2>2, OtherClient DEF Quiet
<1>3. QED
  BY <1>1, <1>2 DEF CallInv

\* The steps of the pool are of this kind, and so are those of the constructor
\* and the destructor.
LEMMA QuietSteps ==
  ASSUME CallTypes
  PROVE  /\ Administer => Quiet
         /\ ShutdownGoesOn => Quiet
         /\ \A c \in Clients : Construct(c) => Quiet
         /\ \A c \in Clients, q \in Queues : ConstructInside(c, q) => Quiet
         /\ \A c \in Clients : ConstructorGoesOn(c) => Quiet
         /\ \A c \in Clients : Destroy(c) => Quiet
         /\ \A q \in Queues, c \in Clients, e \in Event :
              HandleEventOfDestroyedClient(q, c, e) => Quiet
         /\ \A q \in Queues : QueueThreadExits(q) => Quiet
         /\ UNCHANGED vars => Quiet
<1>1. UNCHANGED <<client, callback, tag, handling, messages, finals>> => Quiet
  BY DEF Quiet, CallTypes
<1>2. UNCHANGED clientVars => Quiet
  BY <1>1 DEF clientVars
<1>3. Administer => Quiet
  BY <1>2 DEF Administer
<1>4. ShutdownGoesOn => Quiet
  BY <1>1, <1>2 DEF ShutdownGoesOn, PoolIsCleared
<1>5. ASSUME NEW c \in Clients,
             client[c] # "called",
             NEW s \in {"initialize", "select", "ready"},
             client' = [client EXCEPT ![c] = s],
             UNCHANGED <<callback, tag, handling, messages, finals>>
      PROVE  Quiet
  BY <1>5 DEF Quiet, CallTypes
<1>6. ASSUME NEW c \in Clients, Construct(c) PROVE Quiet
  BY <1>5, <1>6, Zenon DEF Construct
<1>7. ASSUME NEW c \in Clients, NEW q \in Queues, ConstructInside(c, q)
      PROVE  Quiet
  BY <1>5, <1>7, Zenon DEF ConstructInside
<1>8. ASSUME NEW c \in Clients, ConstructorGoesOn(c) PROVE Quiet
  BY <1>5, <1>8 DEF ConstructorGoesOn, ConstructorInitializes, ConstructorSelects
<1>9. ASSUME NEW c \in Clients, Destroy(c) PROVE Quiet
  BY <1>1, <1>9 DEF Destroy
<1>10. ASSUME NEW q \in Queues, NEW c \in Clients, NEW e \in Event,
              HandleEventOfDestroyedClient(q, c, e)
       PROVE  Quiet
  BY <1>2, <1>10 DEF HandleEventOfDestroyedClient
<1>11. ASSUME NEW q \in Queues, QueueThreadExits(q) PROVE Quiet
  BY <1>2, <1>11 DEF QueueThreadExits
<1>12. UNCHANGED vars => Quiet
  BY <1>2 DEF vars
<1>13. QED
  BY <1>3, <1>4, <1>6, <1>7, <1>8, <1>9, <1>10, <1>11, <1>12, Zenon

\* WriteAsync starts the first operation of a client.
LEMMA WriteAsyncInv ==
  ASSUME CallInv, NEW c \in Clients, WriteAsync(c)
  PROVE  CallInv'
<1> DEFINE first == IF Kind[c] = "NORMAL_RPC" THEN "FINISH" ELSE "WRITE"
<1>1. /\ client' = [client EXCEPT ![c] = "called"]
      /\ tag' = [tag EXCEPT ![c][first] = "out"]
      /\ UNCHANGED <<callback, handling, messages, finals>>
      /\ client[c] # "called"
  BY DEF WriteAsync, StartOp
<1>2. first \in {"FINISH", "WRITE"}
  OBVIOUS
<1> HIDE DEF first
<1>3. CallTypes'
  BY <1>1, <1>2 DEF CallInv, CallTypes, Event, TagState
<1>4. tag'[c] = [tag[c] EXCEPT ![first] = "out"]
  BY <1>1 DEF CallInv, CallTypes
<1>5. InvOf(c)'
  <2>1. /\ finals[c] = 0
        /\ \A e \in Event : tag[c][e] = "idle"
        /\ \A q \in Queues : ~Runs(q, c)
    BY <1>1 DEF CallInv, InvOf, OnlyCalled
  <2>2. \A q \in Queues : ~Runs(q, c)'
    BY <1>1, <2>1 DEF Runs
  <2>3. tag[c] \in [Event -> TagState]
    BY DEF CallInv, CallTypes
  <2>4. \A e \in Event : tag'[c][e] # "idle" => e = first
    BY <1>4, <2>1, <2>3
  <2>5. tag'[c]["READ"] = "idle"
    BY <1>2, <2>4 DEF Event
  <2>6. OneOperation(c)'
    BY <2>2, <2>4 DEF OneOperation
  <2>7. OnlyCalled(c)'
    BY <1>1 DEF OnlyCalled, CallInv, CallTypes
  <2>8. LastIsLast(c)' /\ RoomForMessage(c)'
    BY <1>1, <2>1, <2>5 DEF LastIsLast, RoomForMessage
  <2>9. QED
    BY <2>6, <2>7, <2>8 DEF InvOf
<1>6. ASSUME NEW d \in Clients, d # c PROVE InvOf(d)'
  <2>1. tag'[d] = tag[d] /\ client'[d] = client[d]
    BY <1>1, <1>6 DEF CallInv, CallTypes
  <2>2. \A q \in Queues : Runs(q, d)' => Runs(q, d) /\ handling'[q] = handling[q]
    BY <1>1 DEF Runs
  <2>3. QED
    BY <1>1, <2>1, <2>2, OtherClient DEF CallInv
<1>7. QED
  BY <1>3, <1>5, <1>6 DEF CallInv

\* A tag comes back.
LEMMA CompleteInv ==
  ASSUME CallInv, NEW c \in Clients, NEW e \in Event, NEW ok \in BOOLEAN,
         Complete(c, e, ok)
  PROVE  CallInv'
<1> DEFINE back == IF ok THEN "ok" ELSE "failed"
<1>1. /\ tag[c][e] = "out"
      /\ tag' = [tag EXCEPT ![c][e] = back]
      /\ e = "READ" /\ back = "ok" => messages[c] < MaxMessages
      /\ UNCHANGED <<client, callback, handling, messages, finals>>
  BY DEF Complete
<1>2. back \in {"ok", "failed"}
  OBVIOUS
<1> HIDE DEF back
<1>3. CallTypes'
  BY <1>1, <1>2 DEF CallInv, CallTypes, TagState
<1>4. tag[c] \in [Event -> TagState] /\ tag'[c] = [tag[c] EXCEPT ![e] = back]
  BY <1>1 DEF CallInv, CallTypes
<1>5. \A d \in Event : tag'[c][d] = "idle" <=> tag[c][d] = "idle"
  BY <1>1, <1>2, <1>4
<1>6. \A q \in Queues, d \in Clients : Runs(q, d)' <=> Runs(q, d)
  BY <1>1 DEF Runs
<1>7. InvOf(c)'
  <2>1. InvOf(c)
    BY DEF CallInv
  <2>2. OneOperation(c)' /\ OnlyCalled(c)'
    BY <1>1, <1>5, <1>6, <2>1 DEF InvOf, OneOperation, OnlyCalled
  <2>3. LastIsLast(c)'
    BY <1>1, <1>5, <1>6, <2>1 DEF InvOf, LastIsLast, ClearsCallback, NextOp
  <2>4. RoomForMessage(c)'
    BY <1>1, <1>4, <2>1 DEF InvOf, RoomForMessage, Event
  <2>5. QED
    BY <2>2, <2>3, <2>4 DEF InvOf
<1>8. ASSUME NEW d \in Clients, d # c PROVE InvOf(d)'
  <2>1. tag'[d] = tag[d]
    BY <1>1, <1>8 DEF CallInv, CallTypes
  <2>2. QED
    BY <1>1, <1>6, <2>1, OtherClient DEF CallInv
<1>9. QED
  BY <1>3, <1>7, <1>8 DEF CallInv

\* What HandleEvent finds: the client has called, and the event is the only
\* thing that goes on.
LEMMA EventIsAlone ==
  ASSUME CallInv, NEW q \in Queues, NEW c \in Clients, NEW e \in Event,
         HandleEvent(q, c, e)
  PROVE  /\ tag[c][e] \in {"ok", "failed"}
         /\ client[c] = "called"
         /\ \A d \in Event \ {e} : tag[c][d] = "idle"
         /\ \A p \in Queues : ~Runs(p, c)
         /\ finals[c] # 0 => ~callback[c]
<1>1. tag[c][e] \in {"ok", "failed"}
  BY DEF HandleEvent, OfQueue
<1>2. OneOperation(c) /\ OnlyCalled(c) /\ LastIsLast(c)
  BY DEF CallInv, InvOf
<1>3. QED
  BY <1>1, <1>2 DEF OneOperation, OnlyCalled, LastIsLast

\* An event that invokes the callback for the last time is the client's last, or
\* sets callback_ to null.
LEMMA LastEvent ==
  ASSUME NEW c \in Clients, NEW e \in Event, NEW ok \in BOOLEAN,
         CallsBack(c, e, ok), ~IsMessage(c, e, ok)
  PROVE  ClearsCallback(c, e, ok) \/ NextOp(c, e, ok) = {}
<1>1. Kind[c] \in {"NORMAL_RPC", "SERVER_STREAMING"}
  BY ClientsAssumption
<1>2. QED
  BY <1>1 DEF CallsBack, IsMessage, ClearsCallback, NextOp

\* A thread takes an event and invokes the callback.
LEMMA HandleEventInv ==
  ASSUME CallInv, NEW q \in Queues, NEW c \in Clients, NEW e \in Event,
         HandleEvent(q, c, e)
  PROVE  CallInv'
<1> DEFINE ok == tag[c][e] = "ok"
           h == [client |-> c, event |-> e, ok |-> ok,
                 calls_back |-> CallsBack(c, e, ok)]
<1>1. /\ tag' = [tag EXCEPT ![c][e] = "idle"]
      /\ handling' = [handling EXCEPT ![q] = h]
      /\ messages' = [messages EXCEPT ![c] =
           IF CallsBack(c, e, ok) /\ IsMessage(c, e, ok) THEN @ + 1 ELSE @]
      /\ finals' = [finals EXCEPT ![c] =
           IF CallsBack(c, e, ok) /\ ~IsMessage(c, e, ok) THEN @ + 1 ELSE @]
      /\ UNCHANGED <<client, callback>>
  BY DEF HandleEvent
<1>2. /\ tag[c][e] \in {"ok", "failed"}
      /\ client[c] = "called"
      /\ \A d \in Event \ {e} : tag[c][d] = "idle"
      /\ \A p \in Queues : ~Runs(p, c)
      /\ finals[c] # 0 => ~callback[c]
  BY EventIsAlone
<1>3. ok \in BOOLEAN /\ CallsBack(c, e, ok) \in BOOLEAN
  BY DEF CallsBack
<1>4. h \in Handled /\ h.client = c /\ h.event = e /\ h.ok = ok /\ h # Idle
  <2>1. h \in Handled
    BY <1>3, Zenon DEF Handled
  <2>2. QED
    BY <2>1, HandledIsNotIdle
<1>5. CallsBack(c, e, ok) => finals[c] = 0
  BY <1>2 DEF CallsBack
<1>6. IsMessage(c, e, ok) => messages[c] < MaxMessages
  BY DEF IsMessage, CallInv, InvOf, RoomForMessage
<1> HIDE DEF ok, h
<1>7. CallTypes'
  <2>1. tag' \in [Clients -> [Event -> TagState]]
    BY <1>1 DEF CallInv, CallTypes, TagState
  <2>2. handling' \in [Queues -> Handled \cup {Idle}]
    BY <1>1, <1>4 DEF CallInv, CallTypes
  <2>3. messages' \in [Clients -> 0..MaxMessages]
    BY <1>1, <1>6, ClientsAssumption DEF CallInv, CallTypes
  <2>4. finals' \in [Clients -> {0, 1}]
    BY <1>1, <1>5 DEF CallInv, CallTypes
  <2>5. QED
    BY <1>1, <2>1, <2>2, <2>3, <2>4 DEF CallInv, CallTypes
<1>8. /\ tag'[c] = [tag[c] EXCEPT ![e] = "idle"]
      /\ tag[c] \in [Event -> TagState]
  BY <1>1 DEF CallInv, CallTypes
<1>9. \A d \in Event : tag'[c][d] = "idle"
  BY <1>2, <1>8
<1>10. handling'[q] = h /\ \A p \in Queues \ {q} : handling'[p] = handling[p]
  BY <1>1 DEF CallInv, CallTypes
<1>11. \A p \in Queues : Runs(p, c)' => p = q
  BY <1>2, <1>10 DEF Runs
<1>12. InvOf(c)'
  <2>1. OneOperation(c)'
    BY <1>9, <1>11 DEF OneOperation
  <2>2. OnlyCalled(c)' /\ RoomForMessage(c)'
    BY <1>1, <1>2, <1>9 DEF OnlyCalled, RoomForMessage, Event
  <2>3. LastIsLast(c)'
    <3>1. CASE finals[c] # 0
      BY <1>1, <1>2, <1>9, <3>1 DEF LastIsLast
    <3>2. CASE finals[c] = 0
      <4>1. finals'[c] # 0 => CallsBack(c, e, ok) /\ ~IsMessage(c, e, ok)
        BY <1>1, <3>2 DEF CallInv, CallTypes
      <4>2. finals'[c] # 0 => ClearsCallback(c, e, ok) \/ NextOp(c, e, ok) = {}
        BY <1>3, <4>1, LastEvent
      <4>3. QED
        BY <1>4, <1>9, <1>10, <1>11, <4>2 DEF LastIsLast, ClearsCallback, NextOp
    <3>3. QED
      BY <3>1, <3>2
  <2>4. QED
    BY <2>1, <2>2, <2>3 DEF InvOf
<1>13. ASSUME NEW d \in Clients, d # c PROVE InvOf(d)'
  <2>1. tag'[d] = tag[d] /\ messages'[d] = messages[d] /\ finals'[d] = finals[d]
    BY <1>1, <1>13 DEF CallInv, CallTypes
  <2>2. \A p \in Queues : Runs(p, d)' => Runs(p, d) /\ handling'[p] = handling[p]
    BY <1>4, <1>10, <1>13 DEF Runs
  <2>3. QED
    BY <1>1, <2>1, <2>2, OtherClient DEF CallInv
<1>14. QED
  BY <1>7, <1>12, <1>13 DEF CallInv

\* A handler ends, and starts the next operation if there is one.
LEMMA HandlerReturnsInv ==
  ASSUME CallInv, NEW q \in Queues, HandlerReturns(q)
  PROVE  CallInv'
<1>1. handling[q] \in Handled
  BY DEF HandlerReturns, CallInv, CallTypes
<1>2. PICK c \in Clients, e \in Event, ok \in BOOLEAN :
        handling[q].client = c /\ handling[q].event = e /\ handling[q].ok = ok
  BY <1>1, Zenon DEF Handled
<1>3. Runs(q, c)
  BY <1>2 DEF Runs, HandlerReturns
<1>4. /\ handling' = [handling EXCEPT ![q] = Idle]
      /\ callback' = [callback EXCEPT ![c] = @ /\ ~ClearsCallback(c, e, ok)]
      /\ UNCHANGED <<client, messages, finals>>
  BY <1>2 DEF HandlerReturns
<1>5. \/ tag' = tag
      \/ \E op \in NextOp(c, e, ok) : tag' = [tag EXCEPT ![c][op] = "out"]
  BY <1>2 DEF HandlerReturns, StartOp
<1>6. \A op \in NextOp(c, e, ok) : op \in {"READ", "FINISH"}
  BY DEF NextOp
<1>7. finals[c] # 0 =>
        \/ ~callback[c]
        \/ ClearsCallback(c, e, ok)
        \/ NextOp(c, e, ok) = {}
  BY <1>2, <1>3 DEF CallInv, InvOf, LastIsLast
<1>8. /\ client[c] = "called"
      /\ \A d \in Event : tag[c][d] = "idle"
      /\ \A p \in Queues : Runs(p, c) => p = q
  BY <1>2, <1>3 DEF CallInv, InvOf, OneOperation, OnlyCalled
<1>9. handling'[q] = Idle /\ \A p \in Queues \ {q} : handling'[p] = handling[p]
  BY <1>4 DEF CallInv, CallTypes
<1>10. \A p \in Queues, d \in Clients :
         Runs(p, d)' => p # q /\ Runs(p, d) /\ handling'[p] = handling[p]
  BY <1>9 DEF Runs
<1>11. /\ callback' \in [Clients -> BOOLEAN]
       /\ callback'[c] => callback[c] /\ ~ClearsCallback(c, e, ok)
       /\ \A d \in Clients \ {c} : callback'[d] = callback[d]
  <2>1. callback \in [Clients -> BOOLEAN]
    BY DEF CallInv, CallTypes
  <2>2. (callback[c] /\ ~ClearsCallback(c, e, ok)) \in BOOLEAN
    OBVIOUS
  <2>3. QED
    BY <1>2, <1>4, <2>1, <2>2, Zenon
<1>12. CallTypes'
  <2>1. tag' \in [Clients -> [Event -> TagState]]
    <3>1. tag \in [Clients -> [Event -> TagState]]
      BY DEF CallInv, CallTypes
    <3>2. ASSUME NEW op \in Event
          PROVE  [tag EXCEPT ![c][op] = "out"] \in [Clients -> [Event -> TagState]]
      BY <3>1 DEF TagState
    <3>3. NextOp(c, e, ok) \subseteq Event
      BY <1>6 DEF Event
    <3>4. CASE tag' = tag
      BY <3>1, <3>4, Zenon
    <3>5. ASSUME NEW op \in NextOp(c, e, ok), tag' = [tag EXCEPT ![c][op] = "out"]
          PROVE  tag' \in [Clients -> [Event -> TagState]]
      BY <3>2, <3>3, <3>5
    <3>6. QED
      BY <1>5, <3>4, <3>5, Zenon
  <2>2. handling' \in [Queues -> Handled \cup {Idle}]
    BY <1>4 DEF CallInv, CallTypes
  <2>3. QED
    BY <1>4, <1>11, <2>1, <2>2, Zenon DEF CallInv, CallTypes
<1>13. \/ tag'[c] = tag[c]
       \/ \E op \in NextOp(c, e, ok) : tag'[c] = [tag[c] EXCEPT ![op] = "out"]
  BY <1>2, <1>5, Zenon DEF CallInv, CallTypes
<1>14. InvOf(c)'
  <2>1. tag[c] \in [Event -> TagState]
    BY <1>2 DEF CallInv, CallTypes
  <2>2. \A d1, d2 \in Event : tag'[c][d1] # "idle" /\ tag'[c][d2] # "idle" => d1 = d2
    BY <1>8, <1>13, <2>1, Zenon
  <2>3. \A p \in Queues : ~Runs(p, c)'
    BY <1>2, <1>8, <1>10
  <2>4. OneOperation(c)'
    BY <2>2, <2>3 DEF OneOperation
  <2>5. OnlyCalled(c)'
    BY <1>4, <1>8 DEF OnlyCalled
  <2>6. tag'[c]["READ"] # "ok"
    BY <1>8, <1>13, <2>1, Zenon DEF Event
  <2>7. NextOp(c, e, ok) = {} => \A d \in Event : tag'[c][d] = "idle"
    BY <1>8, <1>13
  <2>8. finals[c] # 0 => ~callback'[c] \/ NextOp(c, e, ok) = {}
    BY <1>7, <1>11, Zenon
  <2>9. LastIsLast(c)'
    BY <1>4, <2>3, <2>7, <2>8, Zenon DEF LastIsLast
  <2>10. RoomForMessage(c)'
    BY <2>6 DEF RoomForMessage
  <2>11. QED
    BY <2>4, <2>5, <2>9, <2>10 DEF InvOf
<1>15. ASSUME NEW d \in Clients, d # c PROVE InvOf(d)'
  <2>1. tag'[d] = tag[d]
    BY <1>5, <1>15 DEF CallInv, CallTypes
  <2>2. callback'[d] = callback[d]
    BY <1>11, <1>15
  <2>3. QED
    BY <1>4, <1>10, <2>1, <2>2, OtherClient DEF CallInv
<1>16. QED
  BY <1>2, <1>12, <1>14, <1>15 DEF CallInv

\* The steps that have to do with the calls of clients, and the others.
LEMMA StepKinds ==
  ASSUME CallInv, [Next]_vars
  PROVE \/ Quiet
        \/ \E c \in Clients : WriteAsync(c)
        \/ \E c \in Clients, e \in Event, ok \in BOOLEAN : Complete(c, e, ok)
        \/ \E q \in Queues, c \in Clients, e \in Event : HandleEvent(q, c, e)
        \/ \E q \in Queues : HandlerReturns(q)
<1>1. CallTypes
  BY DEF CallInv
<1>2. QED
  BY <1>1, QuietSteps, Zenon DEF Next, RunCompletionQueue

-----------------------------------------------------------------------------
(* Theorems *)

\* The invariant holds in every state.
THEOREM CallInvariant == Spec => []CallInv
<1>1. Init => CallInv
  <2> SUFFICES ASSUME Init PROVE CallInv
    OBVIOUS
  <2>1. CallTypes
    BY ClientsAssumption DEF Init, CallTypes, TagState
  <2>2. ASSUME NEW c \in Clients PROVE InvOf(c)
    BY DEF Init, InvOf, OneOperation, OnlyCalled, LastIsLast, RoomForMessage,
           Runs, Event
  <2>3. QED
    BY <2>1, <2>2 DEF CallInv
<1>2. CallInv /\ [Next]_vars => CallInv'
  <2> SUFFICES ASSUME CallInv, [Next]_vars PROVE CallInv'
    OBVIOUS
  <2>1. CASE Quiet
    BY <2>1, QuietInv
  <2>2. CASE \E c \in Clients : WriteAsync(c)
    BY <2>2, WriteAsyncInv
  <2>3. CASE \E c \in Clients, e \in Event, ok \in BOOLEAN : Complete(c, e, ok)
    BY <2>3, CompleteInv
  <2>4. CASE \E q \in Queues, c \in Clients, e \in Event : HandleEvent(q, c, e)
    BY <2>4, HandleEventInv
  <2>5. CASE \E q \in Queues : HandlerReturns(q)
    BY <2>5, HandlerReturnsInv
  <2>6. QED
    BY <2>1, <2>2, <2>3, <2>4, <2>5, StepKinds, Zenon
<1>3. QED
  BY <1>1, <1>2, PTL DEF Spec

\* A client has one operation or one handler at a time (HandleReadEvent).
THEOREM NoOverlap == Spec => []OneOperationAtATime
<1>1. CallInv => OneOperationAtATime
  <2> SUFFICES ASSUME CallInv, NEW c \in Clients
               PROVE  LET T == {e \in Event : tag[c][e] # "idle"}
                          H == {q \in Queues :
                                  handling[q] # Idle /\ handling[q].client = c}
                      IN  Cardinality(T) + Cardinality(H) <= 1
    BY DEF OneOperationAtATime
  <2> DEFINE T == {e \in Event : tag[c][e] # "idle"}
             H == {q \in Queues : handling[q] # Idle /\ handling[q].client = c}
  <2>1. /\ \A d, e \in T : d = e
        /\ \A p, q \in H : p = q
        /\ T = {} \/ H = {}
    BY DEF CallInv, InvOf, OneOperation, Runs
  <2> HIDE DEF T, H
  <2>2. ASSUME NEW S, \A x, y \in S : x = y
        PROVE  Cardinality(S) \in {0, 1}
    <3>1. CASE S = {}
      BY <3>1, FS_EmptySet
    <3>2. ASSUME NEW x \in S PROVE Cardinality(S) = 1
      <4>1. S = {x}
        BY <2>2, <3>2
      <4>2. QED
        BY <4>1, FS_Singleton
    <3>3. QED
      BY <3>1, <3>2
  <2>3. Cardinality(T) \in {0, 1} /\ Cardinality(H) \in {0, 1}
    BY <2>1, <2>2
  <2>4. Cardinality(T) = 0 \/ Cardinality(H) = 0
    BY <2>1, FS_EmptySet
  <2>5. Cardinality(T) + Cardinality(H) <= 1
    BY <2>3, <2>4
  <2>6. QED
    BY <2>5 DEF T, H
<1>2. QED
  BY <1>1, CallInvariant, PTL

\* A step changes what a callback sees in three ways only.
LEMMA StepOfACall ==
  ASSUME CallInv, [Next]_vars
  PROVE  [Calls!CallNext]_<<{c \in Clients : client[c] = "called"}, messages, finals>>
<1> DEFINE open == {c \in Clients : client[c] = "called"}
<1>1. ASSUME Quiet PROVE UNCHANGED <<open, messages, finals>>
  BY <1>1 DEF Quiet
<1>2. ASSUME NEW c \in Clients, WriteAsync(c) PROVE Calls!Open(c)
  <2>1. /\ client' = [client EXCEPT ![c] = "called"]
        /\ client[c] # "called"
        /\ UNCHANGED <<messages, finals>>
    BY <1>2 DEF WriteAsync
  <2>2. open' = open \cup {c} /\ c \notin open
    BY <2>1 DEF CallInv, CallTypes
  <2>3. QED
    BY <2>1, <2>2 DEF Calls!Open
<1>3. ASSUME NEW c \in Clients, NEW e \in Event, NEW ok \in BOOLEAN,
             Complete(c, e, ok)
      PROVE  UNCHANGED <<open, messages, finals>>
  BY <1>3 DEF Complete
<1>4. ASSUME NEW q \in Queues, NEW c \in Clients, NEW e \in Event,
             HandleEvent(q, c, e)
      PROVE  Calls!Message(c) \/ Calls!Final(c) \/ UNCHANGED <<open, messages, finals>>
  <2> DEFINE ok == tag[c][e] = "ok"
  <2>1. /\ messages' = [messages EXCEPT ![c] =
             IF CallsBack(c, e, ok) /\ IsMessage(c, e, ok) THEN @ + 1 ELSE @]
        /\ finals' = [finals EXCEPT ![c] =
             IF CallsBack(c, e, ok) /\ ~IsMessage(c, e, ok) THEN @ + 1 ELSE @]
        /\ UNCHANGED client
    BY <1>4 DEF HandleEvent
  <2>2. UNCHANGED open /\ c \in open
    BY <1>4, <2>1, EventIsAlone
  <2>3. CallsBack(c, e, ok) => finals[c] = 0
    BY <1>4, EventIsAlone DEF CallsBack
  <2>4. IsMessage(c, e, ok) =>
          messages[c] < MaxMessages /\ Kind[c] = "SERVER_STREAMING"
    BY DEF IsMessage, CallInv, InvOf, RoomForMessage
  <2> HIDE DEF ok, open
  <2>5. /\ messages = [messages EXCEPT ![c] = messages[c]]
        /\ finals = [finals EXCEPT ![c] = finals[c]]
    BY DEF CallInv, CallTypes
  <2>6. CASE ~CallsBack(c, e, ok)
    BY <2>1, <2>2, <2>5, <2>6
  <2>7. CASE CallsBack(c, e, ok) /\ IsMessage(c, e, ok)
    <3>1. finals' = finals /\ messages' = [messages EXCEPT ![c] = @ + 1]
      BY <2>1, <2>5, <2>7
    <3>2. QED
      BY <2>2, <2>3, <2>4, <2>7, <3>1 DEF Calls!Message, open
  <2>8. CASE CallsBack(c, e, ok) /\ ~IsMessage(c, e, ok)
    <3>1. messages' = messages /\ finals' = [finals EXCEPT ![c] = finals[c] + 1]
      BY <2>1, <2>5, <2>8
    <3>2. QED
      BY <2>2, <2>3, <2>8, <3>1 DEF Calls!Final, open, CallInv, CallTypes
  <2>9. QED
    BY <2>6, <2>7, <2>8
<1>5. ASSUME NEW q \in Queues, HandlerReturns(q)
      PROVE  UNCHANGED <<open, messages, finals>>
  BY <1>5 DEF HandlerReturns
<1> HIDE DEF open
<1>6. Calls!CallNext \/ UNCHANGED <<open, messages, finals>>
  BY <1>1, <1>2, <1>3, <1>4, <1>5, StepKinds, Zenon DEF Calls!CallNext
<1>7. QED
  BY <1>6 DEF open

\* A client implements AsyncCall: WriteAsync opens the call, HandleEvent is a
\* message, the final invocation or no invocation, and nothing else is seen.
THEOREM ClientImplementsCall == Spec => ImplementsAsyncCall
<1>1. Init => Calls!CallInit
  BY DEF Init, Calls!CallInit
<1>2. CallInv /\ [Next]_vars =>
        [Calls!CallNext]_<<{c \in Clients : client[c] = "called"}, messages, finals>>
  BY StepOfACall
<1>3. QED
  BY <1>1, <1>2, CallInvariant, PTL DEF Spec, ImplementsAsyncCall, Calls!CallSpec

-----------------------------------------------------------------------------
(* The pool.  The second invariant says where the queues of clients are.   *)

\* What TypeOK says of the variables that CallTypes is not about.
PoolTypes ==
  /\ PoolTypeOK
  /\ fault \in Fault
  /\ cq \in [Clients -> 0..(MaxQueues + 1)]
  /\ inside \in [Clients -> 0..MaxQueues]
  /\ destroyed \in SUBSET Clients
  /\ careful \in BOOLEAN

\* The queues of the vector have threads, which end only during Shutdown.
PoolShape ==
  /\ initialized <=> size > 0
  /\ \A q \in Queues : thread[q] # "none" <=> q <= size
  /\ MutexIsFree => \A q \in Queues : thread[q] \in {"none", "running"}

\* A client points into the vector from its constructor on, and its events are
\* handled by the thread of its queue.
QueueOf(c) ==
  /\ cq[c] \in {NoQueue, Dangling} \/ cq[c] <= size
  /\ client[c] \in {"none", "initialize", "select"} => cq[c] = NoQueue
  /\ client[c] \in {"ready", "called"} /\ fault = "none" => cq[c] # NoQueue
  /\ \A q \in Queues : Runs(q, c) => cq[c] = q

PoolInv ==
  /\ PoolTypes
  /\ PoolShape
  /\ \A c \in Clients : QueueOf(c)
  /\ NoCallOutlivesItsQueue

\* A unary client never clears callback_.
UnaryInv ==
  /\ \A c \in Clients : Kind[c] = "NORMAL_RPC" => callback[c]
  /\ UnaryMayDieInItsCallback

\* What holds as long as users keep the rules: during Shutdown no client is being
\* constructed and no stream is open, a constructor finds a queue, and nothing
\* goes on with a client that is destroyed.
CarefulInv ==
  careful =>
    /\ fault = "none"
    /\ ~MutexIsFree => MayShutDown
    /\ \A c \in Clients : client[c] = "select" => size > 0
    /\ \A c \in destroyed : ~InFlight(c)

\* Nothing happens after a fault.
LEMMA Frozen ==
  ASSUME [Next]_vars, fault # "none"
  PROVE UNCHANGED vars
<1>1. ASSUME Next PROVE FALSE
  <2>1. ~Administer
    BY Zenon DEF Administer, Start, SetNumberCompletionQueues,
       CheckNotInitialized, ShutdownLocks, Administrator
  <2>2. ~ShutdownGoesOn
    BY Zenon DEF ShutdownGoesOn, ShutDownQueue, PoolIsCleared, ShutdownClears,
       Administrator
  <2>3. ASSUME NEW c \in Clients
        PROVE /\ ~Construct(c) /\ ~ConstructorGoesOn(c) /\ ~WriteAsync(c)
              /\ ~Destroy(c)
              /\ \A q \in Queues : ~ConstructInside(c, q)
              /\ \A e \in Event, ok \in BOOLEAN : ~Complete(c, e, ok)
    BY Zenon DEF Construct, ConstructorGoesOn, ConstructorInitializes,
       ConstructorSelects, WriteAsync, Destroy, ConstructInside, Complete
  <2>4. ASSUME NEW q \in Queues
        PROVE /\ \A c \in Clients, e \in Event : ~RunCompletionQueue(q, c, e)
              /\ ~HandlerReturns(q) /\ ~QueueThreadExits(q)
    BY Zenon DEF RunCompletionQueue, HandleEvent, HandleEventOfDestroyedClient,
       HandlerReturns, QueueThreadExits, ThreadExits
  <2>5. QED
    BY <1>1, <2>1, <2>2, <2>3, <2>4, Zenon DEF Next
<1>2. QED
  BY <1>1, Zenon

\* What an operation on a client's queue does.
LEMMA OpFaults ==
  ASSUME NEW c
  PROVE /\ OpFault(c) \in {"none", "dangling queue",
                           "operation on a queue that is shut down"}
        /\ OpFault(c) = "none" =>
             /\ cq[c] # Dangling
             /\ thread[cq[c]] = "running" \/ OfQueue(cq[c], {"out"}) # {}
        /\ cq[c] # Dangling /\ thread[cq[c]] = "running" => OpFault(c) = "none"
BY DEF OpFault

\* A handler runs with the client it was started for.
LEMMA HandlerOf ==
  ASSUME CallInv, NEW q \in Queues, handling[q] # Idle
  PROVE handling[q].client \in Clients /\ Runs(q, handling[q].client)
<1>1. handling[q] \in Handled
  BY DEF CallInv, CallTypes
<1>2. QED
  BY <1>1 DEF Handled, Runs

\* Only HandleEvent begins a handler, and only WriteAsync begins a call.
LEMMA NothingElseBegins ==
  ASSUME CallInv, [Next]_vars, NEW d \in Clients
  PROVE /\ \A q \in Queues : Runs(q, d)' =>
             Runs(q, d) \/ \E e \in Event : HandleEvent(q, d, e)
        /\ InFlight(d)' => InFlight(d) \/ WriteAsync(d)
<1> DEFINE G == /\ \A q \in Queues : Runs(q, d)' =>
                     Runs(q, d) \/ \E e \in Event : HandleEvent(q, d, e)
                /\ InFlight(d)' => InFlight(d) \/ WriteAsync(d)
<1>1. ASSUME handling' = handling,
             \A e \in Event : tag'[d][e] # "idle"
                => (\E f \in Event : tag[d][f] # "idle") \/ WriteAsync(d)
      PROVE G
  BY <1>1, Zenon DEF Runs, InFlight, Handling
<1>2. CASE Quiet
  BY <1>1, <1>2, Zenon DEF Quiet
<1>3. ASSUME NEW c \in Clients, WriteAsync(c) PROVE G
  <2>1. handling' = handling
    BY <1>3, Zenon DEF WriteAsync
  <2>2. CASE c = d
    BY <1>1, <1>3, <2>1, <2>2, Zenon
  <2>3. CASE c # d
    <3>1. PICK e0 \in Event : tag' = [tag EXCEPT ![c][e0] = "out"]
      BY <1>3, Zenon DEF WriteAsync, StartOp, Event
    <3>2. tag'[d] = tag[d]
      BY <2>3, <3>1 DEF CallInv, CallTypes
    <3>3. QED
      BY <1>1, <2>1, <3>2, Zenon
  <2>4. QED
    BY <2>2, <2>3, Zenon
<1>4. ASSUME NEW c \in Clients, NEW e \in Event, NEW ok \in BOOLEAN,
             Complete(c, e, ok)
      PROVE G
  <2>1. /\ tag[c][e] = "out" /\ handling' = handling
        /\ tag' = [tag EXCEPT ![c][e] = IF ok THEN "ok" ELSE "failed"]
    BY <1>4, Zenon DEF Complete
  <2>2. \A f \in Event : tag'[d][f] # "idle" => tag[d][f] # "idle"
    BY <2>1 DEF CallInv, CallTypes
  <2>3. QED
    BY <1>1, <2>1, <2>2, Zenon
<1>5. ASSUME NEW q \in Queues, NEW c \in Clients, NEW e \in Event,
             HandleEvent(q, c, e)
      PROVE G
  <2> DEFINE ok == tag[c][e] = "ok"
             h == [client |-> c, event |-> e, ok |-> ok,
                   calls_back |-> CallsBack(c, e, ok)]
  <2>1. /\ tag' = [tag EXCEPT ![c][e] = "idle"]
        /\ handling' = [handling EXCEPT ![q] = h]
        /\ h.client = c
    BY <1>5, Zenon DEF HandleEvent
  <2> HIDE DEF h, ok
  <2>2. tag[c][e] # "idle"
    BY <1>5, EventIsAlone
  <2>3. \A f \in Event : tag'[d][f] # "idle" => tag[d][f] # "idle"
    BY <2>1 DEF CallInv, CallTypes
  <2>4. \A p \in Queues : Runs(p, d)' => Runs(p, d) \/ (p = q /\ d = c)
    BY <2>1 DEF CallInv, CallTypes, Runs
  <2>5. InFlight(d)' => InFlight(d)
    BY <2>2, <2>3, <2>4, Zenon DEF InFlight, Handling, Runs
  <2>6. QED
    BY <1>5, <2>4, <2>5, Zenon
<1>6. ASSUME NEW q \in Queues, HandlerReturns(q) PROVE G
  <2>1. PICK c \in Clients : handling[q].client = c /\ Runs(q, c)
    BY <1>6, HandlerOf DEF HandlerReturns
  <2>2. /\ handling' = [handling EXCEPT ![q] = Idle]
        /\ tag' = tag \/ \E op : tag' = [tag EXCEPT ![c][op] = "out"]
    BY <1>6, <2>1, Zenon DEF HandlerReturns, StartOp
  <2>3. d # c => tag'[d] = tag[d]
    BY <2>2 DEF CallInv, CallTypes
  <2>4. \A p \in Queues : Runs(p, d)' => Runs(p, d)
    BY <2>2 DEF CallInv, CallTypes, Runs
  <2>5. InFlight(d)' => InFlight(d)
    <3>1. CASE d = c
      BY <2>1, <3>1, Zenon DEF InFlight, Handling, Runs
    <3>2. CASE d # c
      BY <2>3, <2>4, <3>2, Zenon DEF InFlight, Handling, Runs
    <3>3. QED
      BY <3>1, <3>2, Zenon
  <2>6. QED
    BY <2>4, <2>5, Zenon
<1>7. QED
  BY <1>2, <1>3, <1>4, <1>5, <1>6, StepKinds, Zenon

\* Which steps change what.
LEMMA AdministerChanges ==
  ASSUME Administer
  PROVE /\ cq' = cq /\ inside' = inside /\ destroyed' = destroyed
        /\ client' = client /\ callback' = callback
        /\ fault' = fault \/ \E n \in 0..MaxQueues : CheckNotInitialized(n)
        /\ careful' = careful \/ \E b : careful' = (careful /\ b)
<1>1. UNCHANGED clientVars
  BY Zenon DEF Administer
<1>2. fault' = fault \/ \E n \in 0..MaxQueues : CheckNotInitialized(n)
  BY Zenon DEF Administer, Start, SetNumberCompletionQueues, ShutdownLocks
<1>3. careful' = careful \/ \E b : careful' = (careful /\ b)
  BY Zenon DEF Administer
<1>4. QED
  BY <1>1, <1>2, <1>3, Zenon DEF clientVars

LEMMA ShutdownChanges ==
  ASSUME \/ \E q \in Queues : ShutDownQueue(q) /\ UNCHANGED <<clientVars, careful>>
         \/ PoolIsCleared
         \/ \E q \in Queues : QueueThreadExits(q)
  PROVE /\ cq' = cq \/ PoolIsCleared
        /\ inside' = inside /\ destroyed' = destroyed
        /\ client' = client /\ callback' = callback
        /\ fault' = fault /\ careful' = careful
<1>1. ASSUME NEW q \in Queues, ShutDownQueue(q), UNCHANGED <<clientVars, careful>>
      PROVE /\ cq' = cq /\ inside' = inside /\ destroyed' = destroyed
            /\ client' = client /\ callback' = callback
            /\ fault' = fault /\ careful' = careful
  BY <1>1, Zenon DEF clientVars, ShutDownQueue
<1>2. ASSUME PoolIsCleared
      PROVE /\ inside' = inside /\ destroyed' = destroyed
            /\ client' = client /\ callback' = callback
            /\ fault' = fault /\ careful' = careful
  BY <1>2, Zenon DEF PoolIsCleared, ShutdownClears
<1>3. ASSUME NEW q \in Queues, QueueThreadExits(q)
      PROVE /\ cq' = cq /\ inside' = inside /\ destroyed' = destroyed
            /\ client' = client /\ callback' = callback
            /\ fault' = fault /\ careful' = careful
  BY <1>3, Zenon DEF clientVars, QueueThreadExits, ThreadExits
<1>4. QED
  BY <1>1, <1>2, <1>3, Zenon

LEMMA UserChanges ==
  ASSUME NEW c \in Clients,
         \/ Construct(c) \/ \E q \in Queues : ConstructInside(c, q)
         \/ ConstructorGoesOn(c) \/ WriteAsync(c) \/ Destroy(c)
         \/ \E e \in Event, ok \in BOOLEAN : Complete(c, e, ok)
  PROVE /\ UNCHANGED poolVars \/ ConstructorInitializes(c)
        /\ cq' = cq \/ ConstructorSelects(c)
        /\ \/ inside' = inside \/ inside' = [inside EXCEPT ![c] = NoQueue]
           \/ \E q \in Queues : inside' = [inside EXCEPT ![c] = q]
        /\ destroyed' = destroyed \/ Destroy(c)
        /\ \/ client' = client \/ Construct(c)
           \/ \E q \in Queues : ConstructInside(c, q)
           \/ ConstructorGoesOn(c) \/ WriteAsync(c)
        /\ callback' = callback
        /\ fault' = fault \/ ConstructorSelects(c) \/ WriteAsync(c)
        /\ careful' = careful \/ \E b : careful' = (careful /\ b)
<1>1. CASE Construct(c)
  BY <1>1, Zenon DEF Construct
<1>2. ASSUME NEW q \in Queues, ConstructInside(c, q)
      PROVE /\ UNCHANGED poolVars
            /\ cq' = cq /\ inside' = [inside EXCEPT ![c] = q]
            /\ destroyed' = destroyed /\ callback' = callback
            /\ fault' = fault /\ \E b : careful' = (careful /\ b)
  BY <1>2, Zenon DEF ConstructInside
<1>3. CASE ConstructorInitializes(c)
  BY <1>3, Zenon DEF ConstructorInitializes, ConstructorGoesOn
<1>4. CASE ConstructorSelects(c)
  BY <1>4, Zenon DEF ConstructorSelects, ConstructorGoesOn
<1>5. CASE WriteAsync(c)
  BY <1>5, Zenon DEF WriteAsync
<1>6. CASE Destroy(c)
  BY <1>6, Zenon DEF Destroy
<1>7. CASE \E e \in Event, ok \in BOOLEAN : Complete(c, e, ok)
  BY <1>7, Zenon DEF Complete
<1>8. QED
  BY <1>1, <1>2, <1>3, <1>4, <1>5, <1>6, <1>7, Zenon DEF ConstructorGoesOn

LEMMA ThreadChanges ==
  ASSUME NEW q \in Queues,
         \/ \E c \in Clients, e \in Event : RunCompletionQueue(q, c, e)
         \/ HandlerReturns(q)
  PROVE /\ UNCHANGED poolVars
        /\ cq' = cq /\ inside' = inside /\ destroyed' = destroyed
        /\ client' = client
        /\ callback' = callback \/ HandlerReturns(q)
        /\ \/ fault' = fault \/ HandlerReturns(q)
           \/ \E c \in Clients, e \in Event : HandleEventOfDestroyedClient(q, c, e)
        /\ careful' = careful
<1>1. ASSUME NEW c \in Clients, NEW e \in Event, HandleEvent(q, c, e)
      PROVE /\ UNCHANGED poolVars
            /\ cq' = cq /\ inside' = inside /\ destroyed' = destroyed
            /\ client' = client /\ callback' = callback /\ fault' = fault
            /\ careful' = careful
  BY <1>1, Zenon DEF HandleEvent
<1>2. ASSUME NEW c \in Clients, NEW e \in Event,
             HandleEventOfDestroyedClient(q, c, e)
      PROVE /\ UNCHANGED poolVars
            /\ cq' = cq /\ inside' = inside /\ destroyed' = destroyed
            /\ client' = client /\ callback' = callback /\ careful' = careful
  BY <1>2, Zenon DEF HandleEventOfDestroyedClient, clientVars
<1>3. ASSUME HandlerReturns(q)
      PROVE /\ UNCHANGED poolVars
            /\ cq' = cq /\ inside' = inside /\ destroyed' = destroyed
            /\ client' = client /\ careful' = careful
  BY <1>3, Zenon DEF HandlerReturns
<1>4. QED
  BY <1>1, <1>2, <1>3, Zenon DEF RunCompletionQueue

LEMMA NextKinds ==
  ASSUME [Next]_vars
  PROVE \/ UNCHANGED vars
        \/ Administer
        \/ \E q \in Queues : ShutDownQueue(q) /\ UNCHANGED <<clientVars, careful>>
        \/ PoolIsCleared
        \/ \E q \in Queues : QueueThreadExits(q)
        \/ \E c \in Clients :
             \/ Construct(c) \/ \E q \in Queues : ConstructInside(c, q)
             \/ ConstructorGoesOn(c) \/ WriteAsync(c) \/ Destroy(c)
             \/ \E e \in Event, ok \in BOOLEAN : Complete(c, e, ok)
        \/ \E q \in Queues :
             \/ \E c \in Clients, e \in Event : RunCompletionQueue(q, c, e)
             \/ HandlerReturns(q)
BY Zenon DEF Next, ShutdownGoesOn

\* All of it together.
LEMMA Changes ==
  ASSUME [Next]_vars
  PROVE /\ cq' = cq \/ PoolIsCleared \/ \E c \in Clients : ConstructorSelects(c)
        /\ \/ inside' = inside
           \/ \E c \in Clients :
                \/ inside' = [inside EXCEPT ![c] = NoQueue]
                \/ \E q \in Queues : inside' = [inside EXCEPT ![c] = q]
        /\ destroyed' = destroyed \/ \E c \in Clients : Destroy(c)
        /\ \/ client' = client
           \/ \E c \in Clients : \/ Construct(c)
                                 \/ \E q \in Queues : ConstructInside(c, q)
                                 \/ ConstructorGoesOn(c) \/ WriteAsync(c)
        /\ callback' = callback \/ \E q \in Queues : HandlerReturns(q)
        /\ \/ fault' = fault
           \/ \E n \in 0..MaxQueues : CheckNotInitialized(n)
           \/ \E c \in Clients : ConstructorSelects(c) \/ WriteAsync(c)
           \/ \E q \in Queues :
                \/ HandlerReturns(q)
                \/ \E c \in Clients, e \in Event :
                     HandleEventOfDestroyedClient(q, c, e)
        /\ careful' = careful \/ \E b : careful' = (careful /\ b)
<1>1. UNCHANGED vars =>
        /\ cq' = cq /\ inside' = inside /\ destroyed' = destroyed
        /\ client' = client /\ callback' = callback /\ fault' = fault
        /\ careful' = careful
  BY Zenon DEF vars, clientVars
<1>2. QED
  BY <1>1, NextKinds, AdministerChanges, ShutdownChanges, UserChanges,
     ThreadChanges, Zenon

\* What a step does to the pool.
LEMMA PoolSteps ==
  ASSUME [Next]_vars
  PROVE \/ UNCHANGED poolVars
        \/ Administer
        \/ \E q \in Queues : ShutDownQueue(q)
        \/ PoolIsCleared
        \/ \E c \in Clients : ConstructorInitializes(c)
        \/ \E q \in Queues : QueueThreadExits(q)
<1>1. UNCHANGED vars => UNCHANGED poolVars
  BY Zenon DEF vars
<1>2. QED
  BY <1>1, NextKinds, UserChanges, ThreadChanges, Zenon

LEMMA PoolShapeNext ==
  ASSUME PoolTypes, PoolShape, [Next]_vars
  PROVE PoolTypeOK' /\ PoolShape'
<1>1. CASE UNCHANGED poolVars
  BY <1>1 DEF PoolTypes, PoolTypeOK, PoolShape, poolVars, MutexIsFree
<1>2. ASSUME Initialize, MutexIsFree', administrator' = administrator,
             UNCHANGED <<number, shutdowns>>
      PROVE PoolTypeOK' /\ PoolShape'
  <2>1. CASE initialized
    BY <1>2, <2>1 DEF Initialize, PoolTypes, PoolTypeOK, PoolShape, MutexIsFree
  <2>2. CASE ~initialized
    <3>1. /\ size' = number /\ initialized' = TRUE
          /\ thread' = [q \in Queues |-> IF q <= number THEN "running" ELSE "none"]
          /\ number \in Queues
      BY <1>2, <2>2 DEF Initialize, PoolTypes, PoolTypeOK
    <3>2. PoolTypeOK'
      BY <1>2, <3>1, PoolAssumption
         DEF PoolTypes, PoolTypeOK, Queues, ThreadState
    <3>3. PoolShape'
      BY <3>1, PoolAssumption DEF PoolShape, Queues
    <3>4. QED
      BY <3>2, <3>3
  <2>3. QED
    BY <2>1, <2>2
<1>3. ASSUME UNCHANGED <<initialized, size, thread>>, MutexIsFree' => MutexIsFree,
             administrator' \in {"idle", "set_number", "shutdown"},
             number' \in Queues, shutdowns' \in 0..MaxShutdowns
      PROVE PoolTypeOK' /\ PoolShape'
  BY <1>3 DEF PoolTypes, PoolTypeOK, PoolShape
<1>4. CASE Administer
  <2>1. CASE Start
    BY <1>2, <2>1, Zenon DEF Start, Administrator, Initialize, MutexIsFree
  <2>2. CASE \E n \in Queues : SetNumberCompletionQueues(n)
    BY <1>3, <2>2 DEF SetNumberCompletionQueues, Administrator, MutexIsFree,
       PoolTypes, PoolTypeOK
  <2>3. CASE \E n \in 0..MaxQueues : CheckNotInitialized(n)
    BY <1>3, <2>3 DEF CheckNotInitialized, Administrator, MutexIsFree,
       PoolTypes, PoolTypeOK
  <2>4. CASE ShutdownLocks
    BY <1>3, <2>4, PoolAssumption DEF ShutdownLocks, Administrator, MutexIsFree,
       PoolTypes, PoolTypeOK
  <2>5. QED
    BY <1>4, <2>1, <2>2, <2>3, <2>4, Zenon DEF Administer
<1>5. ASSUME NEW q \in Queues, ShutDownQueue(q) PROVE PoolTypeOK' /\ PoolShape'
  BY <1>5 DEF ShutDownQueue, Administrator, PoolTypes, PoolTypeOK, PoolShape,
     MutexIsFree, ThreadState
<1>6. CASE PoolIsCleared
  <2>1. /\ administrator' = "idle" /\ size' = 0 /\ initialized' = FALSE
        /\ thread' = [q \in Queues |-> "none"]
        /\ number' = number /\ shutdowns' = shutdowns
    BY <1>6, Zenon DEF PoolIsCleared, ShutdownClears, Administrator
  <2>2. PoolTypeOK'
    <3>1. size' \in 0..MaxQueues
      BY <2>1, PoolAssumption
    <3>2. thread' \in [Queues -> ThreadState]
      BY <2>1 DEF ThreadState
    <3>3. administrator' \in {"idle", "set_number", "shutdown"}
      BY <2>1
    <3>4. QED
      BY <2>1, <3>1, <3>2, <3>3, Zenon DEF PoolTypes, PoolTypeOK
  <2>3. PoolShape'
    BY <2>1, PoolAssumption DEF PoolShape, Queues
  <2>4. QED
    BY <2>2, <2>3, Zenon
<1>7. ASSUME NEW c \in Clients, ConstructorInitializes(c)
      PROVE PoolTypeOK' /\ PoolShape'
  BY <1>2, <1>7, Zenon DEF ConstructorInitializes, Initialize, MutexIsFree
<1>8. ASSUME NEW q \in Queues, QueueThreadExits(q) PROVE PoolTypeOK' /\ PoolShape'
  BY <1>8 DEF QueueThreadExits, ThreadExits, PoolTypes, PoolTypeOK, PoolShape,
     MutexIsFree, ThreadState
<1>9. QED
  BY <1>1, <1>4, <1>5, <1>6, <1>7, <1>8, PoolSteps, Zenon

LEMMA OtherTypesNext ==
  ASSUME PoolTypes, CallTypes, CallTypes', [Next]_vars
  PROVE /\ fault' \in Fault
        /\ cq' \in [Clients -> 0..(MaxQueues + 1)]
        /\ inside' \in [Clients -> 0..MaxQueues]
        /\ destroyed' \in SUBSET Clients
        /\ careful' \in BOOLEAN
<1> USE DEF PoolTypes
<1>1. fault' \in Fault
  <2>1. CASE fault' = fault
    BY <2>1
  <2>2. CASE \E n \in 0..MaxQueues : CheckNotInitialized(n)
    BY <2>2 DEF CheckNotInitialized, Fault
  <2>3. ASSUME NEW c \in Clients, ConstructorSelects(c) PROVE fault' \in Fault
    BY <2>3 DEF ConstructorSelects, Fault
  <2>4. ASSUME NEW c \in Clients, fault' = OpFault(c) PROVE fault' \in Fault
    BY <2>4, OpFaults DEF Fault
  <2>5. ASSUME NEW c \in Clients, WriteAsync(c) PROVE fault' \in Fault
    BY <2>4, <2>5 DEF WriteAsync, StartOp
  <2>6. ASSUME NEW q \in Queues, HandlerReturns(q) PROVE fault' \in Fault
    <3>1. \/ fault' = "use of a destroyed client"
          \/ fault' = OpFault(handling[q].client)
          \/ fault' = fault
      BY <2>6, Zenon DEF HandlerReturns, StartOp
    <3>2. QED
      BY <3>1, OpFaults DEF Fault
  <2>7. CASE fault' = "use of a destroyed client"
    BY <2>7 DEF Fault
  <2>8. QED
    BY <2>1, <2>2, <2>3, <2>5, <2>6, <2>7, Changes, Zenon
       DEF HandleEventOfDestroyedClient
<1>2. cq' \in [Clients -> 0..(MaxQueues + 1)]
  <2>1. CASE cq' = cq
    BY <2>1
  <2>2. ASSUME NEW c \in Clients, ConstructorSelects(c)
        PROVE cq' \in [Clients -> 0..(MaxQueues + 1)]
    <3>1. size \in 0..MaxQueues
      BY DEF PoolTypeOK
    <3>2. cq' = cq \/ \E q \in 1..size : cq' = [cq EXCEPT ![c] = q]
      BY <2>2, Zenon DEF ConstructorSelects
    <3>3. QED
      BY <3>1, <3>2, PoolAssumption
  <2>3. CASE PoolIsCleared
    BY <2>3, PoolAssumption DEF PoolIsCleared, NoQueue, Dangling
  <2>4. QED
    BY <2>1, <2>2, <2>3, Changes, Zenon
<1>3. inside' \in [Clients -> 0..MaxQueues]
  <2>1. CASE inside' = inside
    BY <2>1
  <2>2. ASSUME NEW c \in Clients, NEW q \in 0..MaxQueues,
               inside' = [inside EXCEPT ![c] = q]
        PROVE inside' \in [Clients -> 0..MaxQueues]
    BY <2>2
  <2>3. NoQueue \in 0..MaxQueues /\ Queues \subseteq 0..MaxQueues
    BY PoolAssumption DEF NoQueue, Queues
  <2>4. QED
    BY <2>1, <2>2, <2>3, Changes, Zenon
<1>4. destroyed' \in SUBSET Clients
  <2>1. destroyed' = destroyed \/ \E c \in Clients : destroyed' = destroyed \cup {c}
    BY Changes, Zenon DEF Destroy
  <2>2. QED
    BY <2>1
<1>5. careful' \in BOOLEAN
  BY Changes, Zenon
<1>6. QED
  BY <1>1, <1>2, <1>3, <1>4, <1>5, Zenon

\* What is in flight is on a queue of the vector whose thread will take it.
LEMMA InFlightQueue ==
  ASSUME PoolInv, fault = "none", NEW d \in Clients, InFlight(d)
  PROVE /\ cq[d] \in 1..size /\ cq[d] \in Queues
        /\ thread[cq[d]] \in {"running", "shut_down"}
<1>1. cq[d] \in 1..size /\ thread[cq[d]] \in {"running", "shut_down"}
  BY Zenon DEF PoolInv, NoCallOutlivesItsQueue
<1>2. size \in 0..MaxQueues
  BY Zenon DEF PoolInv, PoolTypes, PoolTypeOK
<1>3. QED
  BY <1>1, <1>2, PoolAssumption DEF Queues

\* A client that is in flight has called WriteAsync.
LEMMA InFlightIsCalled ==
  ASSUME CallInv, NEW d \in Clients, InFlight(d)
  PROVE client[d] = "called"
BY Zenon DEF CallInv, InvOf, OnlyCalled, InFlight, Handling, Runs

\* While anything is in flight on a queue, the queue stays: its thread does not
\* exit, and the vector is not cleared.
LEMMA QueueStaysInFlight ==
  ASSUME CallInv, PoolInv, fault = "none", [Next]_vars,
         NEW d \in Clients, InFlight(d)
  PROVE /\ cq'[d] = cq[d] /\ size' = size
        /\ thread'[cq[d]] \in {"running", "shut_down"}
<1>1. /\ cq[d] \in 1..size /\ cq[d] \in Queues
      /\ thread[cq[d]] \in {"running", "shut_down"}
  BY InFlightQueue, Zenon
<1>2. thread \in [Queues -> ThreadState] /\ size \in 0..MaxQueues
  BY Zenon DEF PoolInv, PoolTypes, PoolTypeOK
<1>3. initialized
  BY <1>1, <1>2, PoolAssumption DEF PoolInv, PoolShape
<1>4. ~PoolIsCleared
  <2>1. ASSUME thread[cq[d]] = "exited" PROVE FALSE
    BY <1>1, <2>1
  <2>2. QED
    BY <1>1, <2>1, Zenon DEF PoolIsCleared, ShutdownClears
<1>5. ASSUME NEW q \in Queues, QueueThreadExits(q) PROVE q # cq[d]
  <2>1. SUFFICES ASSUME q = cq[d] PROVE FALSE
    BY Zenon
  <2>2. handling[q] = Idle /\ OfQueue(q, {"out", "ok", "failed"}) = {}
    BY <1>5, Zenon DEF QueueThreadExits
  <2>3. ~Handling(d)
    <3>1. SUFFICES ASSUME NEW p \in Queues, Runs(p, d) PROVE FALSE
      BY Zenon DEF Handling, Runs
    <3>2. cq[d] = p
      BY <3>1, Zenon DEF PoolInv, QueueOf
    <3>3. QED
      BY <2>1, <2>2, <3>1, <3>2, Zenon DEF Runs
  <2>4. PICK e \in Event : tag[d][e] # "idle"
    BY <2>3, Zenon DEF InFlight
  <2>5. tag[d][e] \in {"out", "ok", "failed"}
    BY <2>4 DEF CallInv, CallTypes, TagState
  <2>6. <<d, e>> \in OfQueue(q, {"out", "ok", "failed"})
    BY <2>1, <2>5 DEF OfQueue
  <2>7. QED
    BY <2>2, <2>6, Zenon
<1>6. ASSUME NEW c \in Clients, ConstructorSelects(c) PROVE cq'[d] = cq[d]
  <2>1. client[c] = "select" /\ client[d] = "called"
    BY <1>6, InFlightIsCalled, Zenon DEF ConstructorSelects
  <2>2. c # d
    BY <2>1
  <2>3. cq' = cq \/ \E q \in 1..size : cq' = [cq EXCEPT ![c] = q]
    BY <1>6, Zenon DEF ConstructorSelects
  <2>4. QED
    BY <2>2, <2>3 DEF PoolInv, PoolTypes
<1>7. cq'[d] = cq[d]
  BY <1>4, <1>6, Changes, Zenon
<1>8. ASSUME size' = size, thread' = thread
      PROVE size' = size /\ thread'[cq[d]] \in {"running", "shut_down"}
  BY <1>1, <1>8, Zenon
<1>9. Initialize => size' = size /\ thread' = thread
  BY <1>3, Zenon DEF Initialize
<1>10. size' = size /\ thread'[cq[d]] \in {"running", "shut_down"}
  <2>1. CASE UNCHANGED poolVars
    BY <1>8, <2>1, Zenon DEF poolVars
  <2>2. CASE Administer
    BY <1>8, <1>9, <2>2, Zenon DEF Administer, Start, SetNumberCompletionQueues,
       CheckNotInitialized, ShutdownLocks
  <2>3. ASSUME NEW q \in Queues, ShutDownQueue(q)
        PROVE size' = size /\ thread'[cq[d]] \in {"running", "shut_down"}
    BY <1>1, <1>2, <2>3 DEF ShutDownQueue
  <2>4. ASSUME NEW c \in Clients, ConstructorInitializes(c)
        PROVE size' = size /\ thread'[cq[d]] \in {"running", "shut_down"}
    BY <1>8, <1>9, <2>4, Zenon DEF ConstructorInitializes
  <2>5. ASSUME NEW q \in Queues, QueueThreadExits(q)
        PROVE size' = size /\ thread'[cq[d]] \in {"running", "shut_down"}
    BY <1>1, <1>2, <1>5, <2>5, Zenon DEF QueueThreadExits, ThreadExits
  <2>6. QED
    BY <1>4, <2>1, <2>2, <2>3, <2>4, <2>5, PoolSteps, Zenon
<1>11. QED
  BY <1>7, <1>10, Zenon

\* NoCallOutlivesItsQueue is preserved.
LEMMA InFlightNext ==
  ASSUME CallInv, PoolInv, [Next]_vars
  PROVE NoCallOutlivesItsQueue'
<1> SUFFICES ASSUME NEW d \in Clients, fault' = "none", InFlight(d)'
             PROVE cq'[d] \in 1..size' /\ thread'[cq'[d]] \in {"running", "shut_down"}
  BY Zenon DEF NoCallOutlivesItsQueue
<1>1. fault = "none"
  BY Frozen, Zenon DEF vars
<1>2. CASE InFlight(d)
  BY <1>1, <1>2, InFlightQueue, QueueStaysInFlight, Zenon
<1>3. CASE WriteAsync(d)
  <2>1. /\ client[d] = "ready" /\ OpFault(d) = "none"
        /\ cq' = cq /\ size' = size /\ thread' = thread
    BY <1>3, Zenon DEF WriteAsync, StartOp, poolVars
  <2>2. /\ cq[d] # Dangling
        /\ thread[cq[d]] = "running" \/ OfQueue(cq[d], {"out"}) # {}
    BY <2>1, OpFaults, Zenon
  <2>3. cq[d] \in 1..size
    <3>1. cq[d] # NoQueue /\ (cq[d] \in {NoQueue, Dangling} \/ cq[d] <= size)
      BY <1>1, <2>1, SMT DEF PoolInv, QueueOf
    <3>2. cq[d] \in 0..(MaxQueues + 1)
      BY DEF PoolInv, PoolTypes
    <3>3. size \in 0..MaxQueues
      BY DEF PoolInv, PoolTypes, PoolTypeOK
    <3>4. QED
      BY <2>2, <3>1, <3>2, <3>3, PoolAssumption DEF NoQueue
  <2>4. ASSUME OfQueue(cq[d], {"out"}) # {}
        PROVE thread[cq[d]] \in {"running", "shut_down"}
    <3>1. PICK c \in Clients, e \in Event : cq[c] = cq[d] /\ tag[c][e] = "out"
      BY <2>4 DEF OfQueue
    <3>2. tag[c][e] # "idle"
      BY <3>1
    <3>3. InFlight(c)
      BY <3>2, Zenon DEF InFlight
    <3>4. QED
      BY <1>1, <3>1, <3>3, InFlightQueue, Zenon
  <2>5. QED
    BY <2>1, <2>2, <2>3, <2>4, Zenon
<1>4. QED
  BY <1>2, <1>3, NothingElseBegins, Zenon

LEMMA QueueOfNext ==
  ASSUME CallInv, CallInv', PoolInv, [Next]_vars, NEW d \in Clients
  PROVE QueueOf(d)'
<1>1. QueueOf(d)
  BY Zenon DEF PoolInv
<1>2. CASE fault # "none"
  <2>1. UNCHANGED <<cq, client, handling, size, fault>>
    BY <1>2, Frozen, Zenon DEF vars, clientVars, poolVars
  <2>2. QED
    BY <1>1, <2>1 DEF QueueOf, Runs
<1>3. CASE fault = "none"
  <2>1. ASSUME NEW q \in Queues, Runs(q, d)' PROVE cq'[d] = q
    <3>1. CASE Runs(q, d)
      <4>1. InFlight(d) /\ cq[d] = q
        BY <1>1, <3>1, Zenon DEF InFlight, Handling, Runs, QueueOf
      <4>2. QED
        BY <1>3, <4>1, QueueStaysInFlight, Zenon
    <3>2. ASSUME NEW e \in Event, HandleEvent(q, d, e) PROVE cq'[d] = q
      BY <3>2 DEF HandleEvent, OfQueue
    <3>3. QED
      BY <2>1, <3>1, <3>2, NothingElseBegins, Zenon
  <2>2. cq \in [Clients -> 0..(MaxQueues + 1)] /\ size \in 0..MaxQueues
    BY Zenon DEF PoolInv, PoolTypes, PoolTypeOK
  <2>3. client \in [Clients -> {"none", "initialize", "select", "ready", "called"}]
    BY Zenon DEF CallInv, CallTypes
  <2>4. ASSUME cq'[d] = cq[d], size' >= size, size' \in Nat,
               client[d] \in {"none", "initialize", "select"}
                 <=> client'[d] \in {"none", "initialize", "select"}
        PROVE QueueOf(d)'
    <3>1. cq'[d] \in {NoQueue, Dangling} \/ cq'[d] <= size'
      BY <1>1, <2>2, <2>4, PoolAssumption DEF QueueOf, NoQueue, Dangling
    <3>2. client'[d] \in {"none", "initialize", "select"} => cq'[d] = NoQueue
      BY <1>1, <2>4, Zenon DEF QueueOf
    <3>3. client'[d] \in {"ready", "called"} => cq'[d] # NoQueue
      <4>1. client'[d] \in {"ready", "called"} => client[d] \in {"ready", "called"}
        BY <2>3, <2>4
      <4>2. QED
        BY <1>1, <1>3, <2>4, <4>1, Zenon DEF QueueOf
    <3>4. QED
      BY <2>1, <3>1, <3>2, <3>3, Zenon DEF QueueOf
  <2>5. CASE PoolIsCleared
    <3>1. /\ cq'[d] = IF cq[d] = NoQueue THEN NoQueue ELSE Dangling
          /\ client' = client /\ fault' = fault
      BY <2>5, Zenon DEF PoolIsCleared, ShutdownClears
    <3>2. NoQueue # Dangling
      BY PoolAssumption DEF NoQueue, Dangling
    <3>3. QED
      BY <1>1, <2>1, <3>1, <3>2, Zenon DEF QueueOf
  <2>6. size' \in Nat /\ (~PoolIsCleared => size' >= size)
    <3>1. PoolTypeOK'
      BY PoolShapeNext, Zenon DEF PoolInv
    <3>2. size' \in Nat
      BY <3>1, PoolAssumption DEF PoolTypeOK
    <3>3. ASSUME Initialize PROVE size' >= size
      BY <2>2, <3>2, <3>3, PoolAssumption DEF Initialize, PoolInv, PoolShape
    <3>4. ASSUME size' = size PROVE size' >= size
      BY <2>2, <3>4, PoolAssumption
    <3>5. QED
      BY <3>2, <3>3, <3>4, PoolSteps, Zenon DEF poolVars, Administer, Start,
         SetNumberCompletionQueues, CheckNotInitialized, ShutdownLocks,
         ShutDownQueue, ConstructorInitializes, QueueThreadExits, ThreadExits
  <2>7. ASSUME NEW c \in Clients, ConstructorSelects(c) PROVE QueueOf(d)'
    <3>1. CASE c # d
      <4>1. cq' = cq \/ \E q \in 1..size : cq' = [cq EXCEPT ![c] = q]
        BY <2>7, Zenon DEF ConstructorSelects
      <4>2. client' = [client EXCEPT ![c] = "ready"] /\ size' = size
        BY <2>7, Zenon DEF ConstructorSelects, poolVars
      <4>3. cq'[d] = cq[d] /\ client'[d] = client[d]
        BY <2>2, <2>3, <3>1, <4>1, <4>2
      <4>4. size' >= size /\ size' \in Nat
        BY <2>2, <4>2, PoolAssumption
      <4>5. QED
        BY <2>4, <4>3, <4>4, Zenon
    <3>2. CASE c = d
      <4>1. /\ client' = [client EXCEPT ![d] = "ready"] /\ size' = size
            /\ \/ fault' = "no queue" /\ cq' = cq
               \/ \E q \in 1..size : cq' = [cq EXCEPT ![d] = q]
        BY <2>7, <3>2, Zenon DEF ConstructorSelects, poolVars
      <4>2. client'[d] = "ready"
        BY <2>3, <4>1
      <4>3. CASE fault' = "no queue" /\ cq' = cq
        <5>1. fault' # "none" /\ client'[d] \notin {"none", "initialize", "select"}
          BY <4>2, <4>3
        <5>2. client[d] \in {"none", "initialize", "select"}
          BY <2>7, <3>2 DEF ConstructorSelects
        <5>3. cq'[d] = NoQueue
          BY <1>1, <4>3, <5>2, Zenon DEF QueueOf
        <5>4. cq'[d] \in {NoQueue, Dangling}
          BY <5>3
        <5>5. QED
          BY <2>1, <5>1, <5>3, <5>4 DEF QueueOf
      <4>4. ASSUME NEW q \in 1..size, cq' = [cq EXCEPT ![d] = q] PROVE QueueOf(d)'
        <5>1. size' = size
          BY <4>1, Zenon
        <5>2. cq'[d] = q /\ q <= size' /\ q # NoQueue
          BY <2>2, <4>4, <5>1, PoolAssumption DEF NoQueue
        <5>3. client'[d] \notin {"none", "initialize", "select"}
          BY <4>2
        <5>4. QED
          BY <2>1, <5>2, <5>3, Zenon DEF QueueOf
      <4>5. QED
        BY <4>1, <4>3, <4>4, Zenon
    <3>3. QED
      BY <3>1, <3>2, Zenon
  <2>8. CASE ~PoolIsCleared /\ ~\E c \in Clients : ConstructorSelects(c)
    <3>1. cq'[d] = cq[d]
      BY <2>8, Changes, Zenon
    <3>2. ASSUME client' = client PROVE QueueOf(d)'
      BY <2>4, <2>6, <2>8, <3>1, <3>2, Zenon
    <3>3. ASSUME NEW c \in Clients,
                 \/ client[c] = "none" /\ client' = [client EXCEPT ![c] = "initialize"]
                 \/ client[c] = "initialize" /\ client' = [client EXCEPT ![c] = "select"]
                 \/ client[c] = "ready" /\ client' = [client EXCEPT ![c] = "called"]
          PROVE client[d] \in {"none", "initialize", "select"}
                  <=> client'[d] \in {"none", "initialize", "select"}
      BY <2>3, <3>3
    <3>4. QED
      BY <2>4, <2>6, <2>8, <3>1, <3>2, <3>3, Changes, Zenon DEF Construct,
         ConstructInside, ConstructorGoesOn, ConstructorInitializes, WriteAsync
  <2>9. QED
    BY <2>5, <2>7, <2>8, Zenon
<1>4. QED
  BY <1>2, <1>3, Zenon

\* A unary client has had its status when its FINISH has been handled, and not
\* before; only then its user may destroy it.
LEMMA UnaryNext ==
  ASSUME CallInv, UnaryInv, [Next]_vars
  PROVE UnaryInv'
<1>1. ASSUME NEW c \in Clients, Kind[c] = "NORMAL_RPC" PROVE callback'[c]
  <2>1. callback[c]
    BY <1>1, Zenon DEF UnaryInv
  <2>2. CASE callback' = callback
    BY <2>1, <2>2, Zenon
  <2>3. ASSUME NEW q \in Queues, HandlerReturns(q) PROVE callback'[c]
    <3>1. PICK d, e, ok :
            /\ d \in Clients
            /\ callback' = [callback EXCEPT ![d] = @ /\ ~ClearsCallback(d, e, ok)]
      <4>1. handling[q].client \in Clients
        BY <2>3, HandlerOf, Zenon DEF HandlerReturns
      <4>2. QED
        BY <2>3, <4>1, Zenon DEF HandlerReturns
    <3>2. Kind[c] # "SERVER_STREAMING"
      BY <1>1
    <3>3. ~ClearsCallback(c, e, ok)
      BY <3>2, Zenon DEF ClearsCallback
    <3>4. callback \in [Clients -> BOOLEAN]
      BY Zenon DEF CallInv, CallTypes
    <3>5. CASE d = c
      BY <2>1, <3>1, <3>3, <3>4, <3>5, Zenon
    <3>6. CASE d # c
      BY <2>1, <3>1, <3>4, <3>6, Zenon
    <3>7. QED
      BY <3>5, <3>6, Zenon
  <2>4. QED
    BY <2>2, <2>3, Changes, Zenon
<1>2. UnaryMayDieInItsCallback'
  <2> SUFFICES ASSUME fault' = "use of a destroyed client"
               PROVE \E c \in destroyed' : finals'[c] = 0 \/ Kind[c] = "SERVER_STREAMING"
    BY Zenon DEF UnaryMayDieInItsCallback
  <2>1. CASE fault' = fault
    <3>1. fault # "none"
      BY <2>1
    <3>2. destroyed' = destroyed /\ finals' = finals
      BY <3>1, Frozen, Zenon DEF vars, clientVars
    <3>3. QED
      BY <2>1, <3>2, Zenon DEF UnaryInv, UnaryMayDieInItsCallback
  <2>2. CASE \E n \in 0..MaxQueues : CheckNotInitialized(n)
    BY <2>2 DEF CheckNotInitialized, Administrator
  <2>3. ASSUME NEW c \in Clients, fault' = OpFault(c) PROVE FALSE
    BY <2>3, OpFaults
  <2>4. ASSUME NEW c \in Clients, ConstructorSelects(c) PROVE fault' = fault
    BY <2>4 DEF ConstructorSelects
  <2>5. ASSUME NEW q \in Queues, NEW c \in Clients, NEW e \in Event,
               HandleEventOfDestroyedClient(q, c, e)
        PROVE \E x \in destroyed' : finals'[x] = 0 \/ Kind[x] = "SERVER_STREAMING"
    <3>1. /\ c \in destroyed /\ destroyed' = destroyed /\ finals' = finals
          /\ <<c, e>> \in OfQueue(q, {"ok", "failed"})
      BY <2>5, Zenon DEF HandleEventOfDestroyedClient, clientVars
    <3>2. tag[c][e] # "idle"
      BY <3>1 DEF OfQueue
    <3>3. finals[c] # 0 => ~callback[c]
      BY <3>2, Zenon DEF CallInv, InvOf, LastIsLast
    <3>4. Kind[c] \in {"NORMAL_RPC", "SERVER_STREAMING"}
      BY ClientsAssumption
    <3>5. finals[c] = 0 \/ Kind[c] = "SERVER_STREAMING"
      BY <3>3, <3>4, Zenon DEF UnaryInv
    <3>6. QED
      BY <3>1, <3>5, Zenon
  <2>6. ASSUME NEW q \in Queues, HandlerReturns(q)
        PROVE \E x \in destroyed' : finals'[x] = 0 \/ Kind[x] = "SERVER_STREAMING"
    <3>1. PICK c \in Clients : c = handling[q].client
      BY <2>6, HandlerOf, Zenon DEF HandlerReturns
    <3>2. \/ c \in destroyed /\ UsesClientLast(handling[q])
          \/ fault' = OpFault(c) \/ fault' = fault
      BY <2>6, <3>1, Zenon DEF HandlerReturns, StartOp
    <3>3. destroyed' = destroyed /\ fault = "none"
      BY <2>6, Zenon DEF HandlerReturns
    <3>4. fault' # fault
      BY <3>3
    <3>5. c \in destroyed' /\ Kind[c] = "SERVER_STREAMING"
      BY <2>3, <3>1, <3>2, <3>3, <3>4, Zenon DEF UsesClientLast
    <3>6. QED
      BY <3>5, Zenon
  <2>7. QED
    BY <2>1, <2>2, <2>3, <2>4, <2>5, <2>6, Changes, Zenon DEF WriteAsync, StartOp
<1>3. QED
  BY <1>1, <1>2, Zenon DEF UnaryInv

\* Users that keep the rules break nothing with the next step.
LEMMA CarefulStepHasNoFault ==
  ASSUME CallInv, PoolInv, CarefulInv, [Next]_vars, careful, careful'
  PROVE fault' = "none"
<1>1. /\ fault = "none"
      /\ ~MutexIsFree => MayShutDown
      /\ \A c \in Clients : client[c] = "select" => size > 0
      /\ \A c \in destroyed : ~InFlight(c)
  BY Zenon DEF CarefulInv
<1>2. CASE fault' = fault
  BY <1>1, <1>2, Zenon
<1>3. CASE \E n \in 0..MaxQueues : CheckNotInitialized(n)
  <2>1. administrator = "idle" /\ administrator' = "set_number"
    BY <1>3, Zenon DEF CheckNotInitialized, Administrator
  <2>2. Administer
    <3>1. administrator' # administrator
      BY <2>1
    <3>2. ~UNCHANGED poolVars
      BY <3>1, Zenon DEF poolVars
    <3>3. ~\E q \in Queues : ShutDownQueue(q)
      BY <2>1 DEF ShutDownQueue, Administrator
    <3>4. ~PoolIsCleared
      BY <2>1 DEF PoolIsCleared, ShutdownClears, Administrator
    <3>5. QED
      BY <3>1, <3>2, <3>3, <3>4, PoolSteps, Zenon DEF ConstructorInitializes,
         QueueThreadExits, ThreadExits
  <2>3. \/ Administrator("idle", "idle") \/ Administrator("set_number", "idle")
        \/ Administrator("idle", "shutdown")
        \/ \E n \in 0..MaxQueues :
             /\ CheckNotInitialized(n)
             /\ careful' = (careful /\ ~initialized /\ n > 0)
    BY <2>2, Zenon DEF Administer, Start, SetNumberCompletionQueues, ShutdownLocks
  <2>4. PICK n \in 0..MaxQueues :
          /\ CheckNotInitialized(n)
          /\ careful' = (careful /\ ~initialized /\ n > 0)
    BY <2>1, <2>3 DEF Administrator
  <2>5. ~initialized /\ n > 0
    BY <2>4, Zenon
  <2>6. n # 0
    BY <2>5
  <2>7. QED
    BY <2>4, <2>5, <2>6, Zenon DEF CheckNotInitialized, Administrator
<1>4. ASSUME NEW c \in Clients, ConstructorSelects(c) PROVE fault' = "none"
  <2>1. size > 0
    BY <1>1, <1>4, Zenon DEF ConstructorSelects
  <2>2. size # 0
    BY <2>1
  <2>3. QED
    BY <1>1, <1>4, <2>2, Zenon DEF ConstructorSelects
<1>5. ASSUME NEW c \in Clients, MutexIsFree, cq[c] \in 1..size PROVE OpFault(c) = "none"
  <2>1. size \in 0..MaxQueues
    BY Zenon DEF PoolInv, PoolTypes, PoolTypeOK
  <2>2. cq[c] \in Queues /\ cq[c] <= size /\ cq[c] # Dangling
    BY <1>5, <2>1, PoolAssumption DEF Queues, Dangling
  <2>3. thread[cq[c]] # "none" /\ thread[cq[c]] \in {"none", "running"}
    BY <1>5, <2>2, Zenon DEF PoolInv, PoolShape
  <2>4. thread[cq[c]] = "running"
    BY <2>3
  <2>5. QED
    BY <2>2, <2>4, OpFaults, Zenon
<1>6. ASSUME NEW c \in Clients, WriteAsync(c) PROVE fault' = "none"
  <2>1. /\ client[c] = "ready" /\ fault' = OpFault(c) /\ MutexIsFree
        /\ cq[c] # Dangling
    BY <1>6, Zenon DEF WriteAsync, StartOp, UsesThePool
  <2>2. cq[c] # NoQueue /\ (cq[c] \in {NoQueue, Dangling} \/ cq[c] <= size)
    BY <1>1, <2>1, SMT DEF PoolInv, QueueOf
  <2>3. cq[c] \in 0..(MaxQueues + 1) /\ size \in 0..MaxQueues
    BY DEF PoolInv, PoolTypes, PoolTypeOK
  <2>4. cq[c] \in 1..size
    BY <2>1, <2>2, <2>3, PoolAssumption DEF NoQueue
  <2>5. QED
    BY <1>5, <2>1, <2>4, Zenon
<1>7. ASSUME NEW q \in Queues, NEW c \in Clients, NEW e \in Event,
             HandleEventOfDestroyedClient(q, c, e)
      PROVE FALSE
  <2>1. c \in destroyed /\ <<c, e>> \in OfQueue(q, {"ok", "failed"})
    BY <1>7, Zenon DEF HandleEventOfDestroyedClient
  <2>2. tag[c][e] # "idle"
    BY <2>1 DEF OfQueue
  <2>3. QED
    BY <1>1, <2>1, <2>2, Zenon DEF InFlight
<1>8. ASSUME NEW q \in Queues, HandlerReturns(q) PROVE fault' = "none"
  <2>1. PICK c \in Clients : c = handling[q].client /\ Runs(q, c)
    BY <1>8, HandlerOf, Zenon DEF HandlerReturns
  <2>2. InFlight(c)
    BY <2>1, Zenon DEF InFlight, Handling, Runs
  <2>3. c \notin destroyed
    BY <1>1, <2>2, Zenon
  <2>4. \/ fault' = fault
        \/ /\ fault' = OpFault(c)
           /\ \E op : op \in NextOp(c, handling[q].event, handling[q].ok)
    BY <1>8, <2>1, <2>3, Zenon DEF HandlerReturns, StartOp
  <2>5. ASSUME NEW op, op \in NextOp(c, handling[q].event, handling[q].ok)
        PROVE OpFault(c) = "none"
    <3>1. Kind[c] = "SERVER_STREAMING"
      BY <2>5, ClientsAssumption DEF NextOp
    <3>2. MutexIsFree
      BY <1>1, <2>2, <3>1, Zenon DEF MayShutDown
    <3>3. cq[c] \in 1..size
      BY <1>1, <2>2, InFlightQueue, Zenon
    <3>4. QED
      BY <1>5, <3>2, <3>3, Zenon
  <2>6. QED
    BY <1>1, <2>4, <2>5, Zenon
<1>9. QED
  BY <1>2, <1>3, <1>4, <1>6, <1>7, <1>8, Changes, Zenon

\* Breaking a rule is not forgiven.
LEMMA CarefulBefore ==
  ASSUME [Next]_vars, careful'
  PROVE careful
BY Changes, Zenon

\* In steps that matter for Shutdown, users are careful.
LEMMA CarefulSteps ==
  ASSUME careful'
  PROVE /\ ShutdownLocks /\ Administer => MayShutDown /\ UNCHANGED clientVars
        /\ \A c \in Clients : Construct(c) \/ WriteAsync(c) => MutexIsFree
        /\ \A c \in Clients, q \in Queues : ConstructInside(c, q) => MutexIsFree
        /\ \A c \in Clients : Destroy(c) => ~InFlight(c)
<1>1. ASSUME ShutdownLocks, Administer PROVE MayShutDown /\ UNCHANGED clientVars
  <2>1. administrator = "idle" /\ administrator' = "shutdown"
    BY <1>1, Zenon DEF ShutdownLocks, Administrator
  <2>2. \/ Administrator("idle", "idle") \/ Administrator("set_number", "idle")
        \/ Administrator("idle", "set_number")
        \/ careful' = (careful /\ MayShutDown)
    BY <1>1, Zenon DEF Administer, Start, SetNumberCompletionQueues,
       CheckNotInitialized
  <2>3. careful' = (careful /\ MayShutDown)
    BY <2>1, <2>2 DEF Administrator
  <2>4. UNCHANGED clientVars
    BY <1>1, Zenon DEF Administer
  <2>5. QED
    BY <2>3, <2>4, Zenon
<1>2. ASSUME NEW c \in Clients
      PROVE /\ Construct(c) \/ WriteAsync(c) => MutexIsFree
            /\ \A q \in Queues : ConstructInside(c, q) => MutexIsFree
            /\ Destroy(c) => ~InFlight(c)
  BY Zenon DEF Construct, WriteAsync, ConstructInside, Destroy, UsesThePool
<1>3. QED
  BY <1>1, <1>2, Zenon

LEMMA CarefulNext ==
  ASSUME CallInv, PoolInv, CarefulInv, [Next]_vars
  PROVE CarefulInv'
<1> SUFFICES ASSUME careful'
             PROVE /\ fault' = "none"
                   /\ ~MutexIsFree' => MayShutDown'
                   /\ \A c \in Clients : client'[c] = "select" => size' > 0
                   /\ \A c \in destroyed' : ~InFlight(c)'
  BY Zenon DEF CarefulInv
<1>1. careful
  BY CarefulBefore, Zenon
<1>2. /\ fault = "none"
      /\ ~MutexIsFree => MayShutDown
      /\ \A c \in Clients : client[c] = "select" => size > 0
      /\ \A c \in destroyed : ~InFlight(c)
  BY <1>1, Zenon DEF CarefulInv
<1>3. fault' = "none"
  BY <1>1, CarefulStepHasNoFault, Zenon
<1>4. destroyed \subseteq Clients
  BY Zenon DEF PoolInv, PoolTypes
<1>5. client \in [Clients -> {"none", "initialize", "select", "ready", "called"}]
  BY Zenon DEF CallInv, CallTypes
<1>6. ASSUME NEW d \in Clients, Constructing(d)'
      PROVE \/ Constructing(d)
            \/ MutexIsFree
  <2>1. client'[d] \in {"initialize", "select"}
    BY <1>6, Zenon DEF Constructing
  <2>2. CASE client' = client
    BY <2>1, <2>2, Zenon DEF Constructing
  <2>3. ASSUME NEW c \in Clients, NEW s \in {"ready", "called"},
               client' = [client EXCEPT ![c] = s]
        PROVE Constructing(d)
    <3>1. client'[d] = client[d]
      BY <1>5, <2>1, <2>3
    <3>2. QED
      BY <2>1, <3>1, Zenon DEF Constructing
  <2>4. ASSUME NEW c \in Clients, ConstructorGoesOn(c)
        PROVE Constructing(d) \/ MutexIsFree
    <3>1. CASE ConstructorInitializes(c)
      BY <3>1, Zenon DEF ConstructorInitializes, Initialize
    <3>2. CASE ConstructorSelects(c)
      BY <2>3, <3>2 DEF ConstructorSelects
    <3>3. QED
      BY <2>4, <3>1, <3>2, Zenon DEF ConstructorGoesOn
  <2>5. QED
    BY <2>2, <2>4, Changes, CarefulSteps, Zenon
<1>7. ~MutexIsFree' => MayShutDown'
  <2>1. SUFFICES ASSUME ~MutexIsFree' PROVE MayShutDown'
    BY Zenon
  <2>2. CASE MutexIsFree
    <3>1. ShutdownLocks /\ Administer
      <4>1. administrator' = "shutdown" /\ administrator # "shutdown"
        BY <2>1, <2>2, Zenon DEF MutexIsFree
      <4>2. administrator' # administrator
        BY <4>1
      <4>3. ~UNCHANGED poolVars
        BY <4>2, Zenon DEF poolVars
      <4>4. ~\E q \in Queues : ShutDownQueue(q)
        BY <4>1, Zenon DEF ShutDownQueue, Administrator
      <4>5. ~PoolIsCleared
        BY <4>1, Zenon DEF PoolIsCleared, ShutdownClears, Administrator
      <4>6. Administer
        BY <4>2, <4>3, <4>4, <4>5, PoolSteps, Zenon DEF ConstructorInitializes,
           QueueThreadExits, ThreadExits
      <4>7. \/ administrator' = "idle" \/ administrator' = "set_number"
            \/ ShutdownLocks
        BY <4>6, Zenon DEF Administer, Start, SetNumberCompletionQueues,
           CheckNotInitialized, Administrator
      <4>8. ShutdownLocks
        BY <4>1, <4>7
      <4>9. QED
        BY <4>6, <4>8, Zenon
    <3>2. MayShutDown /\ UNCHANGED <<client, tag, handling>>
      BY <3>1, CarefulSteps, Zenon DEF clientVars
    <3>3. QED
      BY <3>2, Zenon DEF MayShutDown, Constructing, InFlight, Handling
  <2>3. CASE ~MutexIsFree
    <3>1. MayShutDown
      BY <1>2, <2>3, Zenon
    <3>2. ASSUME NEW d \in Clients PROVE ~Constructing(d)'
      BY <1>6, <2>3, <3>1, Zenon DEF MayShutDown
    <3>3. ASSUME NEW d \in Clients, Kind[d] = "SERVER_STREAMING"
          PROVE ~InFlight(d)'
      BY <2>3, <3>1, <3>3, NothingElseBegins, CarefulSteps, Zenon DEF MayShutDown
    <3>4. QED
      BY <3>2, <3>3, Zenon DEF MayShutDown
  <2>4. QED
    BY <2>2, <2>3, Zenon
<1>8. ASSUME NEW d \in Clients, client'[d] = "select" PROVE size' > 0
  <2>1. size \in 0..MaxQueues /\ number \in Queues
    BY Zenon DEF PoolInv, PoolTypes, PoolTypeOK
  <2>2. Initialize => size' > 0
    BY <2>1, PoolAssumption DEF Initialize, PoolInv, PoolShape, Queues
  <2>3. CASE Initialize
    BY <2>2, <2>3, Zenon
  <2>4. CASE ~Initialize
    <3>1. ~\E c \in Clients : ConstructorInitializes(c)
      BY <2>4, Zenon DEF ConstructorInitializes
    <3>2. client[d] = "select"
      <4>1. ASSUME NEW c \in Clients, NEW s, s # "select",
                   client' = [client EXCEPT ![c] = s]
            PROVE client[d] = "select"
        BY <1>5, <1>8, <4>1
      <4>2. "initialize" # "select" /\ "ready" # "select" /\ "called" # "select"
        OBVIOUS
      <4>3. ASSUME NEW c \in Clients,
                   \/ Construct(c) \/ \E q \in Queues : ConstructInside(c, q)
                   \/ ConstructorSelects(c) \/ WriteAsync(c)
            PROVE client[d] = "select"
        BY <4>1, <4>2, <4>3, Zenon DEF Construct, ConstructInside,
           ConstructorSelects, WriteAsync
      <4>4. QED
        BY <1>8, <3>1, <4>3, Changes, Zenon DEF ConstructorGoesOn
    <3>3. size > 0
      BY <1>2, <3>2, Zenon
    <3>4. ~PoolIsCleared
      <4>1. ASSUME PoolIsCleared PROVE FALSE
        <5>1. administrator = "shutdown"
          BY <4>1, Zenon DEF PoolIsCleared, ShutdownClears, Administrator
        <5>2. ~Constructing(d)
          BY <1>2, <5>1, Zenon DEF MutexIsFree, MayShutDown
        <5>3. QED
          BY <3>2, <5>2 DEF Constructing
      <4>2. QED
        BY <4>1, Zenon
    <3>5. size' = size
      BY <2>4, <3>1, <3>4, PoolSteps, Zenon DEF poolVars, Administer, Start,
         SetNumberCompletionQueues, CheckNotInitialized, ShutdownLocks,
         ShutDownQueue, QueueThreadExits, ThreadExits
    <3>6. QED
      BY <3>3, <3>5, Zenon
  <2>5. QED
    BY <2>3, <2>4, Zenon
<1>9. ASSUME NEW d \in destroyed' PROVE ~InFlight(d)'
  <2>1. CASE d \in destroyed
    <3>1. d \in Clients /\ ~InFlight(d) /\ ~WriteAsync(d)
      BY <1>2, <1>4, <2>1, Zenon DEF WriteAsync
    <3>2. QED
      BY <3>1, NothingElseBegins, Zenon
  <2>2. CASE d \notin destroyed
    <3>1. PICK c \in Clients : Destroy(c)
      BY <1>9, <2>2, Changes, Zenon
    <3>2. destroyed' = destroyed \cup {c} /\ UNCHANGED <<tag, handling>>
      BY <3>1, Zenon DEF Destroy
    <3>3. d = c /\ ~InFlight(c)
      BY <1>9, <2>2, <3>1, <3>2, CarefulSteps, Zenon
    <3>4. QED
      BY <3>2, <3>3, Zenon DEF InFlight, Handling
  <2>3. QED
    BY <2>1, <2>2, Zenon
<1>10. QED
  BY <1>3, <1>7, <1>8, <1>9, Zenon

-----------------------------------------------------------------------------
(* Theorems about the pool *)

LEMMA PoolInvInit ==
  ASSUME Init
  PROVE PoolInv /\ UnaryInv /\ CarefulInv
<1>1. PoolTypes
  <2>1. PoolTypeOK
    <3>1. PoolInit
      BY Zenon DEF Init
    <3>2. /\ administrator \in {"idle", "set_number", "shutdown"}
          /\ number \in Queues /\ size \in 0..MaxQueues
          /\ thread \in [Queues -> ThreadState] /\ shutdowns \in 0..MaxShutdowns
      BY <3>1, PoolAssumption DEF PoolInit, Queues, ThreadState
    <3>3. initialized \in BOOLEAN
      BY <3>1, Zenon DEF PoolInit
    <3>4. QED
      BY <3>2, <3>3, Zenon DEF PoolTypeOK
  <2>2. fault \in Fault /\ destroyed \in SUBSET Clients /\ careful \in BOOLEAN
    BY DEF Init, Fault
  <2>3. /\ cq \in [Clients -> 0..(MaxQueues + 1)]
        /\ inside \in [Clients -> 0..MaxQueues]
    BY PoolAssumption DEF Init, NoQueue
  <2>4. QED
    BY <2>1, <2>2, <2>3, Zenon DEF PoolTypes
<1>2. PoolShape
  BY PoolAssumption DEF Init, PoolInit, PoolShape, Queues
<1>3. ASSUME NEW c \in Clients
      PROVE /\ ~InFlight(c) /\ \A q \in Queues : ~Runs(q, c)
            /\ cq[c] = NoQueue /\ client[c] = "none" /\ callback[c]
  BY <1>3, Zenon DEF Init, InFlight, Handling, Runs
<1>4. ASSUME NEW c \in Clients PROVE QueueOf(c)
  BY <1>3 DEF QueueOf
<1>5. NoCallOutlivesItsQueue
  BY <1>3, Zenon DEF NoCallOutlivesItsQueue
<1>6. UnaryInv
  <2>1. fault # "use of a destroyed client"
    BY DEF Init
  <2>2. QED
    BY <1>3, <2>1, Zenon DEF UnaryInv, UnaryMayDieInItsCallback
<1>7. CarefulInv
  <2>1. fault = "none" /\ destroyed = {} /\ administrator = "idle"
    BY Zenon DEF Init, PoolInit
  <2>2. MutexIsFree /\ \A c \in Clients : client[c] # "select"
    BY <1>3, <2>1 DEF MutexIsFree
  <2>3. QED
    BY <2>1, <2>2, Zenon DEF CarefulInv
<1>8. QED
  BY <1>1, <1>2, <1>4, <1>5, <1>6, <1>7, Zenon DEF PoolInv

LEMMA PoolInvNext ==
  ASSUME CallInv, CallInv', PoolInv, [Next]_vars
  PROVE PoolInv'
<1>1. PoolTypes /\ PoolShape
  BY Zenon DEF PoolInv
<1>2. PoolTypeOK' /\ PoolShape'
  BY <1>1, PoolShapeNext, Zenon
<1>3. CallTypes /\ CallTypes'
  BY Zenon DEF CallInv
<1>4. PoolTypes'
  BY <1>1, <1>2, <1>3, OtherTypesNext, Zenon DEF PoolTypes
<1>5. QED
  BY <1>2, <1>4, QueueOfNext, InFlightNext, Zenon DEF PoolInv

\* The pool and its clients stay consistent: queues of the vector have threads,
\* and clients point into it (CompletionQueuePool, AsyncClient).
THEOREM PoolInvariant == Spec => []PoolInv
<1>1. Init => PoolInv
  BY PoolInvInit, Zenon
<1>2. CallInv /\ CallInv' /\ PoolInv /\ [Next]_vars => PoolInv'
  BY PoolInvNext, Zenon
<1>3. QED
  BY <1>1, <1>2, CallInvariant, PTL DEF Spec

\* Type correctness of the pool and its clients, for any number of both.
THEOREM TypeCorrect == Spec => []TypeOK
<1>1. CallInv /\ PoolInv => TypeOK
  <2> SUFFICES ASSUME CallInv, PoolInv PROVE TypeOK
    BY Zenon
  <2>1. finals \in [Clients -> Nat]
    BY DEF CallInv, CallTypes
  <2>2. QED
    BY <2>1, Zenon DEF CallInv, CallTypes, PoolInv, PoolTypes, TypeOK
<1>2. QED
  BY <1>1, CallInvariant, PoolInvariant, PTL

\* CompletionQueue::Shutdown joins the thread of a queue before the vector is
\* cleared, so a call that is in flight has a queue and a thread.
THEOREM CallsKeepTheirQueues == Spec => []NoCallOutlivesItsQueue
<1>1. PoolInv => NoCallOutlivesItsQueue
  BY Zenon DEF PoolInv
<1>2. QED
  BY <1>1, PoolInvariant, PTL

\* Initialize fills an empty vector only, and ShutdownClears empties it: no step
\* moves the queues that clients point to.
THEOREM VectorStays == Spec => QueuesStay
<1>1. PoolInv /\ [Next]_vars => [size' # size => size = 0 \/ size' = 0]_vars
  <2> SUFFICES ASSUME PoolInv, [Next]_vars, size' # size PROVE size = 0 \/ size' = 0
    BY Zenon
  <2>1. size \in 0..MaxQueues
    BY Zenon DEF PoolInv, PoolTypes, PoolTypeOK
  <2>2. Initialize => size = 0
    BY <2>1, PoolAssumption DEF Initialize, PoolInv, PoolShape
  <2>3. PoolIsCleared => size' = 0
    BY Zenon DEF PoolIsCleared, ShutdownClears
  <2>4. QED
    BY <2>2, <2>3, PoolSteps, Zenon DEF poolVars, Administer, Start,
       SetNumberCompletionQueues, CheckNotInitialized, ShutdownLocks,
       ShutDownQueue, ConstructorInitializes, QueueThreadExits, ThreadExits
<1>2. QED
  BY <1>1, PoolInvariant, PTL DEF Spec, QueuesStay

\* A unary client's handler does not touch the client after its callback, so a
\* user may destroy it there (HandleFinishEvent).
THEOREM UnaryClientsMayDie == Spec => []UnaryMayDieInItsCallback
<1>1. Init => UnaryInv
  BY PoolInvInit, Zenon
<1>2. CallInv /\ UnaryInv /\ [Next]_vars => UnaryInv'
  BY UnaryNext, Zenon
<1>3. UnaryInv => UnaryMayDieInItsCallback
  BY Zenon DEF UnaryInv
<1>4. QED
  BY <1>1, <1>2, <1>3, CallInvariant, PTL DEF Spec

\* The rules of UsesThePool, MayShutDown and Destroy are enough: users that keep
\* them never meet a fault, nor a callback and a Shutdown that wait for each
\* other, with any number of clients, queues and Shutdowns.
THEOREM RulesAreEnough == Spec => []CarefulUseIsSafe
<1>1. Init => CarefulInv
  BY PoolInvInit, Zenon
<1>2. CallInv /\ PoolInv /\ CarefulInv /\ [Next]_vars => CarefulInv'
  BY CarefulNext, Zenon
<1>3. CarefulInv => CarefulUseIsSafe
  <2> SUFFICES ASSUME CarefulInv, careful
               PROVE fault = "none" /\ ~CallbackWaitsForShutdown
    BY Zenon DEF CarefulUseIsSafe
  <2>1. fault = "none" /\ (~MutexIsFree => MayShutDown)
    BY Zenon DEF CarefulInv
  <2>2. ASSUME NEW c \in Clients, client[c] = "initialize" PROVE MutexIsFree
    <3>1. Constructing(c)
      BY <2>2 DEF Constructing
    <3>2. QED
      BY <2>1, <3>1, Zenon DEF MayShutDown
  <2>3. QED
    BY <2>1, <2>2, Zenon DEF CallbackWaitsForShutdown
<1>4. QED
  BY <1>1, <1>2, <1>3, CallInvariant, PoolInvariant, PTL DEF Spec
=============================================================================
