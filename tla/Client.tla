------------------------------- MODULE Client -------------------------------
(***************************************************************************)
(* One synchronous client (client.h), of any of the four types, with the   *)
(* loop of RetryWithStrategy (retry.cc).  The client's thread takes no     *)
(* time but in a call of gRPC and in sleep_for.  A unary Write is one      *)
(* action up to its first call, and one for every return of a call and     *)
(* every wake-up; the operations of the streams are one action each.       *)
(***************************************************************************)
EXTENDS Retry, Sequences

CONSTANTS
  Timeouts,      \* the timeout_ values, each of them optional
  Strategies,    \* the retry_strategy_ values: "nullptr", "limited", "unlimited"
                 \* and "codes"
  MinDelay,      \* the parameters of the strategies
  BackoffFactor,
  MaxAttempts,
  ConstantDelay,
  UnrecoverableCodes,
  MaxWrites,     \* bound: calls of Write
  MaxWait        \* bound: the time until the last unary Write begins, and the
                 \* time that a call without a deadline takes

VARIABLES
  type,       \* RpcServiceMethod::StreamType
  timeout,    \* timeout_
  strategy,   \* retry_strategy_
  now,        \* the clock
  phase,      \* where the thread is: idle, in a call, or asleep
  began,      \* when Write has been called last
  deadline,   \* its local deadline
  context,    \* client_context_
  failed,     \* failed_attemps
  wake,       \* when sleep_for ends
  stream,     \* client_writer_, client_reader_ or client_reader_writer_ is set
  returned,   \* what Write has returned last
  writes,     \* calls of Write so far
  log,        \* the attempts of this Write
  fault       \* a failed CHECK, or a context that gRPC is given again

config == <<type, timeout, strategy>>
vars == <<config, now, phase, began, deadline, context, failed, wake, stream,
          returned, writes, log, fault>>

RpcType == {"NORMAL_RPC", "CLIENT_STREAMING", "SERVER_STREAMING", "BIDI_STREAMING"}

ASSUME ClientAssumption ==
  /\ \A t \in Timeouts : t \subseteq Nat /\ \A m, n \in t : m = n
  /\ Strategies \subseteq {"nullptr", "limited", "unlimited", "codes"}
  /\ {MinDelay, BackoffFactor, MaxAttempts, ConstantDelay} \subseteq Nat \ {0}
  /\ UnrecoverableCodes \subseteq Code
  /\ MaxWrites \in Nat /\ MaxWait \in Nat

\* The RetryStrategy: no function for nullptr.
RetryStrategy ==
  [nullptr   |-> {},
   limited   |-> {CreateLimitedBackoffStrategy(MinDelay, BackoffFactor, MaxAttempts)},
   unlimited |-> {CreateUnlimitedConstantDelayStrategy(ConstantDelay, {})},
   codes     |-> {CreateUnlimitedConstantDelayStrategy(ConstantDelay,
                                                       UnrecoverableCodes)}
  ][strategy]

Context == [deadline : SUBSET Nat, used : BOOLEAN]

Attempt == [begin : Nat, end : Nat, deadline : SUBSET Nat,
            status : Code \cup {"OK", "pending"}]

TypeOK ==
  /\ type \in RpcType
  /\ timeout \in Timeouts
  /\ strategy \in Strategies
  /\ now \in Nat
  /\ phase \in {"idle", "call", "sleep"}
  /\ began \in 0..now
  /\ deadline \in SUBSET Nat
  /\ context \in Context
  /\ failed \in 0..MaxFailures
  /\ wake \in Nat
  /\ stream \in BOOLEAN
  /\ returned \in BOOLEAN
  /\ writes \in 0..MaxWrites
  /\ log \in Seq(Attempt)
  /\ fault \in {"none", "context used twice", "CHECK(client_reader_)"}

Init ==
  /\ type \in RpcType
  /\ timeout \in Timeouts
  /\ strategy \in Strategies
  /\ type # "NORMAL_RPC" => timeout = {}
  /\ timeout = {} => strategy = "nullptr"
  /\ now = 0
  /\ phase = "idle"
  /\ began = 0
  /\ deadline = {}
  /\ context = [deadline |-> {}, used |-> FALSE]
  /\ failed = 0
  /\ wake = 0
  /\ stream = FALSE
  /\ returned = FALSE
  /\ writes = 0
  /\ log = <<>>
  /\ fault = "none"

-----------------------------------------------------------------------------
(* The context: gRPC takes each for one call only. *)

\* Mutant: set_deadline is forgotten.
ResetContextWithoutDeadline(d) == [deadline |-> {}, used |-> FALSE]

ResetContext(d) == [deadline |-> d, used |-> FALSE]

GiveToGrpc(c) ==
  /\ fault' = IF c.used THEN "context used twice" ELSE "none"
  /\ context' = [c EXCEPT !.used = TRUE]

-----------------------------------------------------------------------------
(* Unary *)

\* WriteImpl: the call of BlockingUnaryCall begins.
WriteImpl(attempts, c) ==
  /\ phase' = "call"
  /\ log' = Append(attempts, [begin |-> now, end |-> now, deadline |-> c.deadline,
                              status |-> "pending"])
  /\ GiveToGrpc(c)

Write ==
  /\ fault = "none"
  /\ type = "NORMAL_RPC"
  /\ phase = "idle"
  /\ writes < MaxWrites
  /\ writes' = writes + 1
  /\ began' = now
  /\ deadline' = {now + t : t \in timeout}
  /\ failed' = 0
  /\ WriteImpl(<<>>, ResetContext(deadline'))
  /\ UNCHANGED <<config, now, wake, stream, returned>>

Return(result) == phase' = "idle" /\ returned' = result

DeadlineIsOver == \E t \in context.deadline : now >= t

\* Mutant: failed_attemps is incremented twice for each failure.
RetryWithStrategyCountsTwice(code) ==
  \/ code = "OK" /\ Return(TRUE) /\ UNCHANGED <<failed, wake>>
  \/ code # "OK" /\ RetryStrategy = {} /\ Return(FALSE) /\ UNCHANGED <<failed, wake>>
  \/ \E retry_strategy \in RetryStrategy :
       /\ code # "OK"
       /\ failed' = failed + 2
       /\ \/ \E delay \in retry_strategy[failed + 1][code] :
               phase' = "sleep" /\ wake' = now + delay /\ UNCHANGED returned
          \/ retry_strategy[failed + 1][code] = {} /\ Return(FALSE) /\ UNCHANGED wake

\* What the loop does with the status of an attempt.
RetryWithStrategy(code) ==
  \/ code = "OK" /\ Return(TRUE) /\ UNCHANGED <<failed, wake>>
  \/ code # "OK" /\ RetryStrategy = {} /\ Return(FALSE) /\ UNCHANGED <<failed, wake>>
  \/ \E retry_strategy \in RetryStrategy :
       /\ code # "OK"
       /\ failed' = failed + 1
       /\ \/ \E delay \in retry_strategy[failed'][code] :
               phase' = "sleep" /\ wake' = now + delay /\ UNCHANGED returned
          \/ retry_strategy[failed'][code] = {} /\ Return(FALSE) /\ UNCHANGED wake

\* BlockingUnaryCall returns, with any status.  With a deadline it takes no longer
\* than that (see Tick), and no time if the deadline is over when it begins.
CallReturns(code) ==
  /\ fault = "none"
  /\ phase = "call"
  /\ code = "OK" \/ failed < MaxFailures
  /\ log' = [log EXCEPT ![Len(log)] = [@ EXCEPT !.end = now, !.status = code]]
  /\ RetryWithStrategy(code)
  /\ UNCHANGED <<config, now, began, deadline, context, stream, writes, fault>>

\* Mutant: the deadline starts anew with each retry.
WakeUpWithNewDeadline ==
  /\ fault = "none"
  /\ phase = "sleep"
  /\ now >= wake
  /\ WriteImpl(log, ResetContext({now + t : t \in timeout}))
  /\ UNCHANGED <<config, now, began, deadline, failed, wake, stream, returned,
                 writes>>

\* Mutant: there is no reset().
WakeUpWithoutReset ==
  /\ fault = "none"
  /\ phase = "sleep"
  /\ now >= wake
  /\ WriteImpl(log, context)
  /\ UNCHANGED <<config, now, began, deadline, failed, wake, stream, returned,
                 writes>>

\* sleep_for is over: reset(), and the next attempt.
WakeUp ==
  /\ fault = "none"
  /\ phase = "sleep"
  /\ now >= wake
  /\ WriteImpl(log, ResetContext(deadline))
  /\ UNCHANGED <<config, now, began, deadline, failed, wake, stream, returned,
                 writes>>

\* Time passes while a call blocks, while the thread sleeps and between Writes.
Tick ==
  /\ fault = "none"
  /\ CASE phase = "sleep" -> now < wake
       [] phase = "call" -> IF context.deadline = {} THEN now < began + MaxWait
                                                     ELSE ~DeadlineIsOver
       [] phase = "idle" -> now < MaxWait
  /\ now' = now + 1
  /\ UNCHANGED <<config, phase, began, deadline, context, failed, wake, stream,
                 returned, writes, log, fault>>

-----------------------------------------------------------------------------
(* Streams *)

CreateStream == stream' = TRUE /\ GiveToGrpc(context)

\* InstantiateClientWriterIfNeeded, InstantiateClientReaderWriterIfNeeded
InstantiateIfNeeded ==
  IF stream THEN UNCHANGED <<stream, context, fault>> ELSE CreateStream

\* Write never looks at what gRPC's Write says and returns true.  The reader of a
\* server stream is created anew.
StreamWrite ==
  /\ fault = "none"
  /\ type # "NORMAL_RPC"
  /\ writes < MaxWrites
  /\ writes' = writes + 1
  /\ IF type = "SERVER_STREAMING" THEN CreateStream ELSE InstantiateIfNeeded
  /\ returned' = TRUE
  /\ UNCHANGED <<config, now, phase, began, deadline, failed, wake, log>>

\* StreamRead, StreamWritesDone and StreamFinish
StreamOperation ==
  /\ fault = "none"
  /\ type # "NORMAL_RPC"
  /\ IF type = "SERVER_STREAMING"
     THEN /\ fault' = IF stream THEN "none" ELSE "CHECK(client_reader_)"
          /\ UNCHANGED <<stream, context>>
     ELSE InstantiateIfNeeded
  /\ UNCHANGED <<config, now, phase, began, deadline, failed, wake, returned,
                 writes, log>>

-----------------------------------------------------------------------------
Next ==
  \/ Write
  \/ \E code \in Code \cup {"OK"} : CallReturns(code)
  \/ WakeUp
  \/ Tick
  \/ StreamWrite
  \/ StreamOperation

\* Time passes, sleeps end, and gRPC returns when the deadline is over.
Fairness ==
  /\ WF_vars(Tick)
  /\ WF_vars(WakeUp)
  /\ WF_vars(DeadlineIsOver /\ CallReturns("DEADLINE_EXCEEDED"))

Spec == Init /\ [][Next]_vars /\ Fairness

-----------------------------------------------------------------------------
(* Properties *)

\* No context is given to gRPC for a second call: neither by a retry nor by the
\* next Write of a unary client, nor by a stream, whichever operation comes
\* first.  A server stream whose Write is not its first operation, or comes
\* twice, is used against its comment ("It cannot be used for multiple
\* invocations.") and ends in a fault.
ContextsAreUsedOnce ==
  fault # "none" => type = "SERVER_STREAMING" /\ (writes = 0 \/ writes > 1)

\* All attempts of a Write have the same deadline, 'timeout' after the Write was
\* called, however late they begin ("multiple retries count towards a single
\* timeout").
OneDeadlinePerWrite ==
  \A i \in DOMAIN log : log[i].deadline = {began + t : t \in timeout}

\* With the limited strategy, Write makes at most MaxAttempts attempts, and waits
\* before each retry as long as the README's example says: MinDelay, and every
\* time BackoffFactor as long as before.
BackoffIsExponential ==
  strategy = "limited" =>
    /\ Len(log) <= MaxAttempts
    /\ \A i \in 2..Len(log) :
         LET pause(j) == log[j].begin - log[j - 1].end
         IN pause(i) = IF i = 2 THEN MinDelay ELSE BackoffFactor * pause(i - 1)

\* Write does not retry after a success, nor after a code that its strategy has
\* been told is unrecoverable.
NoRetryInVain ==
  \A i \in 1..(Len(log) - 1) :
    /\ log[i].status # "OK"
    /\ strategy = "codes" => log[i].status \notin UnrecoverableCodes

\* No retry is in vain, and Write returns true if and only if its last attempt
\* was a success, and false only when the strategy's attempts are used up or the
\* error is unrecoverable.  A deadline that is over does not end the attempts.
ResultIsJustified ==
  /\ NoRetryInVain
  /\ (phase = "idle" /\ log # <<>>) =>
       LET last == log[Len(log)].status IN
       IF returned THEN last = "OK"
       ELSE /\ last # "OK"
            /\ strategy = "nullptr" => Len(log) = 1
            /\ strategy = "limited" => Len(log) = MaxAttempts
            /\ strategy = "codes" => last \in UnrecoverableCodes
            /\ strategy # "unlimited"

\* The delays of the limited strategy before attempt n + 1, together.
TotalDelay[n \in Nat] ==
  IF n = 0 THEN 0 ELSE TotalDelay[n - 1] + pow(BackoffFactor)[n - 1] * MinDelay

\* A Write with a timeout and the limited strategy takes the timeout and all the
\* delays at the most, because an attempt that begins after the deadline takes no
\* time.
WriteTakesBoundedTime ==
  (strategy = "limited" /\ phase # "idle") =>
    \A t \in timeout : now <= began + t + TotalDelay[MaxAttempts - 1]

\* A Write with a timeout returns, if its strategy is not unlimited, even if gRPC
\* never answers.
WriteReturns ==
  (phase # "idle" /\ timeout # {} /\ strategy \in {"nullptr", "limited"})
    ~> phase = "idle"
=============================================================================
