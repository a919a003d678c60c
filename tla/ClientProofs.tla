---------------------------- MODULE ClientProofs ----------------------------
(***************************************************************************)
(* Proofs about Client, for any timeouts, any parameters of the strategies *)
(* and any numbers of attempts and Writes.                                 *)
(***************************************************************************)
EXTENDS Client, WellFoundedInduction, TLAPS

-----------------------------------------------------------------------------
(* The inductive invariant *)

\* What TypeOK says, but for wake: its type needs the powers of the backoff, and
\* is part of TimeInv below.
TypeInv ==
  /\ type \in RpcType
  /\ timeout \in Timeouts
  /\ strategy \in Strategies
  /\ now \in Nat
  /\ phase \in {"idle", "call", "sleep"}
  /\ began \in 0..now
  /\ deadline \in SUBSET Nat
  /\ context \in Context
  /\ failed \in 0..MaxFailures
  /\ stream \in BOOLEAN
  /\ returned \in BOOLEAN
  /\ writes \in 0..MaxWrites
  /\ log \in Seq(Attempt)

\* Whatever is given to gRPC later will have the deadline of this Write.
DeadlineInv ==
  /\ phase # "idle" => deadline = {began + t : t \in timeout}
  /\ OneDeadlinePerWrite

\* The context is new before every attempt of a unary client, and belongs to the
\* stream if there is one.
ContextInv ==
  /\ phase # "idle" => type = "NORMAL_RPC"
  /\ type = "NORMAL_RPC" => fault = "none"
  /\ type \in {"CLIENT_STREAMING", "BIDI_STREAMING"} =>
       fault = "none" /\ (context.used <=> stream)
  /\ type = "SERVER_STREAMING" =>
       \/ fault = "none" /\ writes = 0 /\ ~stream /\ ~context.used
       \/ fault = "none" /\ writes = 1 /\ stream /\ context.used
       \/ fault # "none" /\ (writes = 0 \/ writes > 1)

\* A status after which the strategy lets the loop go on.
Recoverable(status) ==
  status # "OK" /\ (strategy = "codes" => status \notin UnrecoverableCodes)

\* The attempts in the log are the failures that the loop has counted, and the
\* one that is going on.
AttemptInv ==
  /\ type # "NORMAL_RPC" => log = <<>>
  /\ phase # "idle" =>
       /\ Len(log) = failed + (IF phase = "call" THEN 1 ELSE 0)
       /\ \A i \in 1..failed : Recoverable(log[i].status)
       /\ strategy = "nullptr" => failed = 0
       /\ strategy = "limited" => failed < MaxAttempts
  /\ phase = "idle" => ResultIsJustified

\* The inductive invariant.
ClientInv == TypeInv /\ DeadlineInv /\ ContextInv /\ AttemptInv

\* What the limited strategy says after n failures.
Delay(n) == pow(BackoffFactor)[n - 1] * MinDelay

\* The attempts in the log are as far apart as the strategy says, the thread
\* sleeps no longer than that, and Write is never behind by more than the delays
\* so far.
TimeInv ==
  /\ wake \in Nat
  /\ phase # "idle" => context.deadline = deadline
  /\ phase = "sleep" => now <= wake
  /\ strategy = "limited" =>
       /\ Len(log) <= MaxAttempts
       /\ \A i \in 2..Len(log) : log[i].begin = log[i - 1].end + Delay(i - 1)
       /\ phase = "sleep" => wake = log[failed].end + Delay(failed)
       /\ \A t \in timeout :
            /\ phase = "call" => now <= began + t + TotalDelay[failed]
            /\ phase = "sleep" => wake <= began + t + TotalDelay[failed]

-----------------------------------------------------------------------------
(* Induction and recursion over the natural numbers.  The provers cannot     *)
(* instantiate the library's induction theorems, whose parameter is an       *)
(* operator; a set does as well.                                             *)

\* A set of natural numbers that is not empty has a least element.
LEMMA Least ==
  ASSUME NEW T \in SUBSET Nat, T # {}
  PROVE \E n \in T : \A m \in T : n <= m
<1> DEFINE R == OpToRel(<, Nat)
<1>1. IsWellFoundedOn(R, Nat)
  BY NatLessThanWellFounded, Zenon
<1>2. \A m, n \in Nat : m < n => <<m, n>> \in R
  BY Zenon DEF OpToRel
<1> HIDE DEF R
<1>3. PICK n \in T : \A m \in T : ~(<<m, n>> \in R)
  BY <1>1, WFMin, Zenon
<1>4. \A m \in T : m \in Nat /\ ~(m < n)
  BY <1>2, <1>3, Zenon
<1>5. n \in Nat
  BY Zenon
<1>6. QED
  BY <1>4, <1>5

\* Induction: a set that has 0, and the successor of every number it has, has
\* every natural number.
LEMMA SetInduction ==
  ASSUME NEW S, 0 \in S, \A n \in Nat : n \in S => n + 1 \in S
  PROVE Nat \subseteq S
<1> DEFINE T == Nat \ S
<1>1. SUFFICES ASSUME T # {} PROVE FALSE
  OBVIOUS
<1>2. PICK n \in T : \A m \in T : n <= m
  BY <1>1, Least, Zenon
<1>3. n # 0 /\ n \in Nat
  OBVIOUS
<1>4. n - 1 \in Nat /\ n - 1 \notin T
  BY <1>2, <1>3
<1>5. QED
  BY <1>3, <1>4

\* g takes m steps from a, with G[n] as the n-th.
Steps(g, a, G, m) == g[0] = a /\ \A n \in 1..m : g[n] = G[n][g[n - 1]]

\* The steps leave no choice.
LEMMA StepsAgree ==
  ASSUME NEW V, NEW a \in V, NEW G \in [Nat -> [V -> V]],
         NEW k \in Nat, NEW g, Steps(g, a, G, k),
         NEW m \in Nat, NEW h, Steps(h, a, G, m), NEW n \in Nat, n <= k, n <= m
  PROVE  g[n] = h[n]
<1> DEFINE S == {i \in Nat : i <= k /\ i <= m => g[i] = h[i]}
<1>1. 0 \in S
  BY DEF Steps
<1>2. ASSUME NEW i \in Nat, i \in S PROVE i + 1 \in S
  <2>1. SUFFICES ASSUME i + 1 <= k, i + 1 <= m PROVE g[i + 1] = h[i + 1]
    OBVIOUS
  <2>2. i + 1 \in 1..k /\ i + 1 \in 1..m /\ (i + 1) - 1 = i /\ g[i] = h[i]
    BY <1>2, <2>1
  <2>3. g[i + 1] = G[i + 1][g[(i + 1) - 1]] /\ h[i + 1] = G[i + 1][h[(i + 1) - 1]]
    BY <2>2, Zenon DEF Steps
  <2>4. QED
    BY <2>2, <2>3, Zenon
<1>3. Nat \subseteq S
  <2> HIDE DEF S
  <2> QED BY <1>1, <1>2, SetInduction
<1>4. QED
  BY <1>3

\* Any number of steps can be taken.
LEMMA StepsExist ==
  ASSUME NEW V, NEW a \in V, NEW G \in [Nat -> [V -> V]], NEW m \in Nat
  PROVE  \E g \in [Nat -> V] : Steps(g, a, G, m)
<1> DEFINE S == {k \in Nat : \E g \in [Nat -> V] : Steps(g, a, G, k)}
<1>1. 0 \in S
  <2>1. [n \in Nat |-> a] \in [Nat -> V] /\ Steps([n \in Nat |-> a], a, G, 0)
    BY DEF Steps
  <2>2. QED
    BY <2>1
<1>2. ASSUME NEW k \in Nat, k \in S PROVE k + 1 \in S
  <2>1. PICK g \in [Nat -> V] : Steps(g, a, G, k)
    BY <1>2
  <2> DEFINE h == [g EXCEPT ![k + 1] = G[k + 1][g[k]]]
  <2>2. h \in [Nat -> V]
    OBVIOUS
  <2>3. h[0] = a
    BY <2>1 DEF Steps
  <2>4. ASSUME NEW n \in 1..(k + 1) PROVE h[n] = G[n][h[n - 1]]
    <3>1. h[n - 1] = g[n - 1] /\ n - 1 \in Nat
      OBVIOUS
    <3>2. CASE n = k + 1
      BY <3>1, <3>2
    <3>3. CASE n # k + 1
      <4>1. n \in 1..k /\ h[n] = g[n]
        BY <3>3
      <4>2. QED
        BY <2>1, <3>1, <4>1 DEF Steps
    <3>4. QED
      BY <3>2, <3>3
  <2> HIDE DEF h
  <2>5. Steps(h, a, G, k + 1)
    BY <2>3, <2>4 DEF Steps
  <2>6. QED
    BY <2>2, <2>5
<1>3. Nat \subseteq S
  <2> HIDE DEF S
  <2> QED BY <1>1, <1>2, SetInduction
<1>4. QED
  BY <1>3

\* f is defined by recursion.
IsRecursive(f, a, G) == \A n \in Nat : f[n] = IF n = 0 THEN a ELSE G[n][f[n - 1]]

\* There is a function for every recursive definition.
LEMMA Recursion ==
  ASSUME NEW V, NEW a \in V, NEW G \in [Nat -> [V -> V]]
  PROVE  \E f \in [Nat -> V] : IsRecursive(f, a, G)
<1> DEFINE g(m) == CHOOSE g \in [Nat -> V] : Steps(g, a, G, m)
           f == [m \in Nat |-> g(m)[m]]
<1>1. \A m \in Nat : g(m) \in [Nat -> V] /\ Steps(g(m), a, G, m)
  BY StepsExist, Zenon
<1> HIDE DEF g
<1>2. f \in [Nat -> V]
  BY <1>1
<1>3. ASSUME NEW n \in Nat PROVE f[n] = IF n = 0 THEN a ELSE G[n][f[n - 1]]
  <2>1. CASE n = 0
    BY <1>1, <2>1 DEF Steps
  <2>2. CASE n # 0
    <3>1. n - 1 \in Nat /\ n - 1 <= n - 1 /\ n - 1 <= n /\ n \in 1..n
      BY <2>2
    <3>2. g(n)[n] = G[n][g(n)[n - 1]]
      BY <1>1, <3>1, Zenon DEF Steps
    <3>3. g(n)[n - 1] = g(n - 1)[n - 1]
      <4>1. Steps(g(n), a, G, n) /\ Steps(g(n - 1), a, G, n - 1)
        BY <1>1, <3>1, Zenon
      <4>2. QED
        BY <3>1, <4>1, StepsAgree
    <3>4. f[n] = g(n)[n] /\ f[n - 1] = g(n - 1)[n - 1]
      BY <3>1, Zenon
    <3>5. QED
      BY <2>2, <3>2, <3>3, <3>4, Zenon
  <2>3. QED
    BY <2>1, <2>2
<1> HIDE DEF f
<1>4. IsRecursive(f, a, G)
  BY <1>3 DEF IsRecursive
<1>5. QED
  BY <1>2, <1>4, Zenon

-----------------------------------------------------------------------------
(* The delays of the limited strategy *)

\* What std::pow returns for natural numbers.
LEMMA PowIsPower ==
  ASSUME NEW b \in Nat
  PROVE  /\ pow(b) \in [Nat -> Nat]
         /\ \A n \in Nat : pow(b)[n] = IF n = 0 THEN 1 ELSE b * pow(b)[n - 1]
<1> DEFINE G == [n \in Nat |-> [v \in Nat |-> b * v]]
           IsPow(p) == p = [n \in Nat |-> IF n = 0 THEN 1 ELSE b * p[n - 1]]
<1>1. G \in [Nat -> [Nat -> Nat]] /\ 1 \in Nat
  OBVIOUS
<1>2. \A n, v \in Nat : G[n][v] = b * v
  OBVIOUS
<1> HIDE DEF G
<1>3. PICK f \in [Nat -> Nat] : IsRecursive(f, 1, G)
  BY <1>1, Recursion, Zenon
<1>4. IsPow(f)
  <2>1. \A n \in Nat : n # 0 => f[n - 1] \in Nat
    OBVIOUS
  <2>2. \A n \in Nat : n # 0 => G[n][f[n - 1]] = b * f[n - 1]
    BY <1>2, <2>1, Zenon
  <2>3. \A n \in Nat : f[n] = IF n = 0 THEN 1 ELSE G[n][f[n - 1]]
    BY <1>3, Zenon DEF IsRecursive
  <2>4. \A n \in Nat : f[n] = IF n = 0 THEN 1 ELSE b * f[n - 1]
    BY <2>2, <2>3, Zenon
  <2>5. f = [n \in Nat |-> f[n]]
    BY Zenon
  <2>6. QED
    BY <2>4, <2>5, Zenon
<1>5. pow(b) = CHOOSE p : IsPow(p)
  BY DEF pow
<1>6. IsPow(pow(b))
  <2> HIDE DEF IsPow
  <2> QED BY <1>4, <1>5, Zenon
<1>7. \A n \in Nat : pow(b)[n] = IF n = 0 THEN 1 ELSE b * pow(b)[n - 1]
  BY <1>6, Zenon
<1> DEFINE S == {n \in Nat : pow(b)[n] \in Nat}
<1>8. 0 \in S
  BY <1>7
<1>9. ASSUME NEW n \in Nat, n \in S PROVE n + 1 \in S
  <2>1. n + 1 \in Nat /\ n + 1 # 0 /\ (n + 1) - 1 = n
    OBVIOUS
  <2>2. pow(b)[n + 1] = b * pow(b)[n]
    BY <1>7, <2>1
  <2>3. QED
    BY <1>9, <2>1, <2>2
<1>10. Nat \subseteq S
  <2> HIDE DEF S
  <2> QED BY <1>8, <1>9, SetInduction
<1>11. pow(b) = [n \in Nat |-> pow(b)[n]]
  BY <1>6
<1>12. QED
  BY <1>7, <1>10, <1>11, Zenon

\* The delays of the limited strategy: the first is MinDelay, and every other one
\* BackoffFactor times the one before (CreateBackoffDelayCalculator).
LEMMA DelayIsExponential ==
  /\ Delay(1) = MinDelay
  /\ \A n \in Nat \ {0} : Delay(n) \in Nat /\ Delay(n + 1) = BackoffFactor * Delay(n)
<1> DEFINE p == pow(BackoffFactor)
<1>1. BackoffFactor \in Nat /\ MinDelay \in Nat
  BY ClientAssumption
<1>2. /\ p \in [Nat -> Nat]
      /\ \A n \in Nat : p[n] = IF n = 0 THEN 1 ELSE BackoffFactor * p[n - 1]
  BY <1>1, PowIsPower, Zenon
<1>3. \A n : Delay(n) = p[n - 1] * MinDelay
  BY Zenon DEF Delay
<1> HIDE DEF p
<1>4. p[0] = 1
  BY <1>2
<1>5. Delay(1) = MinDelay
  BY <1>1, <1>3, <1>4
<1>6. ASSUME NEW n \in Nat \ {0}
      PROVE  Delay(n) \in Nat /\ Delay(n + 1) = BackoffFactor * Delay(n)
  <2>1. n \in Nat /\ n # 0 /\ n - 1 \in Nat /\ (n + 1) - 1 = n
    OBVIOUS
  <2>2. p[n] = BackoffFactor * p[n - 1] /\ p[n - 1] \in Nat
    BY <1>2, <2>1
  <2>3. Delay(n) = p[n - 1] * MinDelay /\ Delay(n + 1) = p[n] * MinDelay
    BY <1>3, <2>1
  <2>4. ASSUME NEW q \in Nat, NEW b \in Nat, NEW m \in Nat
        PROVE  q * m \in Nat /\ (b * q) * m = b * (q * m)
    OBVIOUS
  <2>5. QED
    BY <1>1, <2>2, <2>3, <2>4
<1>7. QED
  BY <1>5, <1>6

\* The sum of the delays.
LEMMA TotalDelayIsSum ==
  /\ TotalDelay[0] = 0
  /\ \A n \in Nat : /\ TotalDelay[n] \in Nat
                    /\ TotalDelay[n + 1] = TotalDelay[n] + Delay(n + 1)
<1> DEFINE D == [n \in Nat |-> IF n = 0 THEN 0 ELSE Delay(n)]
           G == [n \in Nat |-> [v \in Nat |-> v + D[n]]]
           IsSum(t) == t = [n \in Nat |-> IF n = 0 THEN 0 ELSE t[n - 1] + D[n]]
<1>1. \A n \in Nat : D[n] \in Nat /\ (n # 0 => D[n] = Delay(n))
  BY DelayIsExponential
<1> HIDE DEF D
<1>2. G \in [Nat -> [Nat -> Nat]] /\ 0 \in Nat
  BY <1>1
<1>3. \A n, v \in Nat : G[n][v] = v + D[n]
  OBVIOUS
<1> HIDE DEF G
<1>4. PICK f \in [Nat -> Nat] : IsRecursive(f, 0, G)
  BY <1>2, Recursion, Zenon
<1>5. IsSum(f)
  <2>1. \A n \in Nat : n # 0 => f[n - 1] \in Nat
    OBVIOUS
  <2>2. \A n \in Nat : n # 0 => G[n][f[n - 1]] = f[n - 1] + D[n]
    BY <1>3, <2>1, Zenon
  <2>3. \A n \in Nat : f[n] = IF n = 0 THEN 0 ELSE G[n][f[n - 1]]
    BY <1>4, Zenon DEF IsRecursive
  <2>4. \A n \in Nat : f[n] = IF n = 0 THEN 0 ELSE f[n - 1] + D[n]
    BY <2>2, <2>3, Zenon
  <2>5. f = [n \in Nat |-> f[n]]
    BY Zenon
  <2>6. QED
    BY <2>4, <2>5, Zenon
<1>6. TotalDelay = CHOOSE t : IsSum(t)
  <2>1. ASSUME NEW t
        PROVE  [n \in Nat |-> IF n = 0 THEN 0
                              ELSE t[n - 1] + pow(BackoffFactor)[n - 1] * MinDelay]
             = [n \in Nat |-> IF n = 0 THEN 0 ELSE t[n - 1] + D[n]]
    BY <1>1, Zenon DEF Delay
  <2>2. QED
    BY <2>1, Zenon DEF TotalDelay
<1>7. IsSum(TotalDelay)
  <2> HIDE DEF IsSum
  <2> QED BY <1>5, <1>6, Zenon
<1>8. \A n \in Nat : TotalDelay[n] = IF n = 0 THEN 0 ELSE TotalDelay[n - 1] + D[n]
  BY <1>7, Zenon
<1>9. TotalDelay[0] = 0
  BY <1>8
<1>10. \A n \in Nat : TotalDelay[n + 1] = TotalDelay[n] + Delay(n + 1)
  <2> TAKE n \in Nat
  <2>1. n + 1 \in Nat /\ n + 1 # 0 /\ (n + 1) - 1 = n
    OBVIOUS
  <2>2. TotalDelay[n + 1] = TotalDelay[(n + 1) - 1] + D[n + 1] /\ D[n + 1] = Delay(n + 1)
    BY <1>1, <1>8, <2>1, Zenon
  <2>3. QED
    BY <2>1, <2>2, Zenon
<1> DEFINE S == {n \in Nat : TotalDelay[n] \in Nat}
<1>11. 0 \in S
  BY <1>9
<1>12. ASSUME NEW n \in Nat, n \in S PROVE n + 1 \in S
  <2>1. Delay(n + 1) \in Nat /\ TotalDelay[n] \in Nat
    BY <1>12, DelayIsExponential
  <2>2. QED
    BY <1>10, <2>1
<1>13. Nat \subseteq S
  <2> HIDE DEF S
  <2> QED BY <1>11, <1>12, SetInduction
<1>14. QED
  BY <1>9, <1>10, <1>13

\* More failures, more delay.
LEMMA TotalDelayGrows ==
  ASSUME NEW m \in Nat, NEW n \in Nat, m <= n
  PROVE  TotalDelay[m] <= TotalDelay[n]
<1> DEFINE S == {k \in Nat : TotalDelay[m] <= TotalDelay[m + k]}
<1>1. 0 \in S
  BY TotalDelayIsSum
<1>2. ASSUME NEW k \in Nat, k \in S PROVE k + 1 \in S
  <2>1. m + k \in Nat /\ m + (k + 1) = (m + k) + 1
    OBVIOUS
  <2>2. Delay((m + k) + 1) \in Nat
    BY <2>1, DelayIsExponential
  <2>3. /\ TotalDelay[m] \in Nat /\ TotalDelay[m + k] \in Nat
        /\ TotalDelay[(m + k) + 1] = TotalDelay[m + k] + Delay((m + k) + 1)
    BY <2>1, TotalDelayIsSum, Zenon
  <2>4. QED
    BY <1>2, <2>1, <2>2, <2>3
<1>3. Nat \subseteq S
  <2> HIDE DEF S
  <2> QED BY <1>1, <1>2, SetInduction
<1>4. n - m \in S /\ m + (n - m) = n
  <2> HIDE DEF S
  <2> QED BY <1>3
<1>5. QED
  BY <1>4

-----------------------------------------------------------------------------
(* What the strategies say *)

\* The limited strategy lets the loop go on while fewer than max_attempts
\* attempts have failed (CreateLimitedBackoffStrategy).
LEMMA LimitedStrategyEnds ==
  ASSUME NEW d, NEW b, NEW m \in Nat, NEW n \in Failures, NEW code \in Code
  PROVE  CreateLimitedBackoffStrategy(d, b, m)[n][code] = {} <=> ~(n < m)
  BY Zenon DEF CreateLimitedBackoffStrategy, CreateRetryStrategy,
         CreateLimitedRetryIndicator

\* The unlimited strategy ends only with an unrecoverable code
\* (CreateUnlimitedConstantDelayStrategy).
LEMMA UnlimitedStrategyEnds ==
  ASSUME NEW d, NEW C, NEW n \in Failures, NEW code \in Code
  PROVE  CreateUnlimitedConstantDelayStrategy(d, C)[n][code] = {} <=> code \in C
  BY Zenon DEF CreateUnlimitedConstantDelayStrategy, CreateRetryStrategy,
         CreateUnlimitedRetryIndicator

\* For every client: when the loop goes on after a failure, and when it ends.
LEMMA StrategyEnds ==
  ASSUME NEW r \in RetryStrategy, NEW n \in Failures, NEW code \in Code,
         strategy \in Strategies
  PROVE  /\ strategy # "nullptr"
         /\ r[n][code] # {} => Recoverable(code)
         /\ r[n][code] = {} => strategy \in {"limited", "codes"}
         /\ strategy = "limited" => (r[n][code] = {} <=> ~(n < MaxAttempts))
         /\ strategy = "codes" => (r[n][code] = {} <=> code \in UnrecoverableCodes)
<1>1. code # "OK"
  BY RetryAssumption
<1>2. strategy \in {"nullptr", "limited", "unlimited", "codes"}
  BY ClientAssumption
<1>3. CASE strategy = "nullptr"
  BY <1>3 DEF RetryStrategy
<1>4. CASE strategy = "limited"
  <2>1. r = CreateLimitedBackoffStrategy(MinDelay, BackoffFactor, MaxAttempts)
    BY <1>4 DEF RetryStrategy
  <2>2. MaxAttempts \in Nat
    BY ClientAssumption
  <2>3. QED
    BY <1>1, <1>4, <2>1, <2>2, LimitedStrategyEnds DEF Recoverable
<1>5. CASE strategy = "unlimited"
  <2>1. r = CreateUnlimitedConstantDelayStrategy(ConstantDelay, {})
    BY <1>5 DEF RetryStrategy
  <2>2. QED
    BY <1>1, <1>5, <2>1, UnlimitedStrategyEnds DEF Recoverable
<1>6. CASE strategy = "codes"
  <2>1. r = CreateUnlimitedConstantDelayStrategy(ConstantDelay, UnrecoverableCodes)
    BY <1>6 DEF RetryStrategy
  <2>2. QED
    BY <1>1, <1>6, <2>1, UnlimitedStrategyEnds DEF Recoverable
<1>7. QED
  BY <1>2, <1>3, <1>4, <1>5, <1>6

\* For every client: how long the loop waits (CreateBackoffDelayCalculator,
\* CreateConstantDelayCalculator).
LEMMA StrategyDelays ==
  ASSUME NEW r \in RetryStrategy, NEW n \in Failures, NEW code \in Code,
         NEW delay \in r[n][code], strategy \in Strategies
  PROVE  delay \in Nat /\ (strategy = "limited" => delay = Delay(n))
<1>1. strategy \in {"nullptr", "limited", "unlimited", "codes"}
  BY ClientAssumption
<1>2. n \in Nat \ {0} /\ ConstantDelay \in Nat
  BY ClientAssumption, RetryAssumption DEF Failures
<1>3. CASE strategy = "nullptr"
  BY <1>3 DEF RetryStrategy
<1>4. CASE strategy = "limited"
  <2>1. r = CreateLimitedBackoffStrategy(MinDelay, BackoffFactor, MaxAttempts)
    BY <1>4 DEF RetryStrategy
  <2>2. delay = pow(BackoffFactor)[n - 1] * MinDelay
    BY <2>1 DEF CreateLimitedBackoffStrategy, CreateRetryStrategy,
                CreateBackoffDelayCalculator
  <2>3. delay = Delay(n)
    BY <2>2 DEF Delay
  <2>4. QED
    BY <1>2, <2>3, DelayIsExponential
<1>5. CASE strategy \in {"unlimited", "codes"}
  <2>1. PICK C : r = CreateUnlimitedConstantDelayStrategy(ConstantDelay, C)
    BY <1>5 DEF RetryStrategy
  <2>2. delay = ConstantDelay
    BY <2>1 DEF CreateUnlimitedConstantDelayStrategy, CreateRetryStrategy,
                CreateConstantDelayCalculator
  <2>3. QED
    BY <1>2, <1>5, <2>2
<1>6. QED
  BY <1>1, <1>3, <1>4, <1>5

-----------------------------------------------------------------------------
(* Types *)

\* The deadline of a Write is a set of times.
LEMMA DeadlineType ==
  ASSUME NEW n \in Nat, NEW t \in Timeouts
  PROVE  {n + u : u \in t} \in SUBSET Nat
  BY ClientAssumption

\* An attempt that begins is one more in the log (WriteImpl).
LEMMA WriteImplType ==
  ASSUME NEW attempts \in Seq(Attempt), NEW c \in Context, now \in Nat,
         WriteImpl(attempts, c)
  PROVE  /\ phase' = "call"
         /\ log' \in Seq(Attempt)
         /\ Len(log') = Len(attempts) + 1
         /\ \A i \in 1..Len(attempts) : log'[i] = attempts[i]
         /\ log'[Len(log')].deadline = c.deadline
         /\ context' \in Context /\ context'.used
         /\ fault' = IF c.used THEN "context used twice" ELSE "none"
<1> DEFINE a == [begin |-> now, end |-> now, deadline |-> c.deadline,
                 status |-> "pending"]
<1>1. a \in Attempt
  BY DEF Attempt, Context
<1>2. log' = Append(attempts, a) /\ phase' = "call" /\ GiveToGrpc(c)
  BY DEF WriteImpl
<1>3. /\ context' \in Context /\ context'.used
      /\ fault' = IF c.used THEN "context used twice" ELSE "none"
  BY <1>2, Zenon DEF GiveToGrpc, Context
<1>4. a.deadline = c.deadline
  OBVIOUS
<1> HIDE DEF a
<1>5. /\ log' \in Seq(Attempt)
      /\ Len(log') = Len(attempts) + 1
      /\ \A i \in 1..Len(attempts) : log'[i] = attempts[i]
      /\ log'[Len(log')] = a
  BY <1>1, <1>2
<1>6. QED
  BY <1>2, <1>3, <1>4, <1>5, Zenon

\* The end of an attempt changes the last entry of the log (CallReturns).
LEMMA CallReturnsLog ==
  ASSUME TypeInv, NEW code \in Code \cup {"OK"}, log # <<>>,
         log' = [log EXCEPT ![Len(log)] = [@ EXCEPT !.end = now, !.status = code]]
  PROVE  /\ log' \in Seq(Attempt)
         /\ Len(log') = Len(log)
         /\ \A i \in 1..Len(log) : log'[i].deadline = log[i].deadline
         /\ \A i \in 1..(Len(log) - 1) : log'[i] = log[i]
         /\ log'[Len(log)].status = code
<1> DEFINE n == Len(log)
           a == [log[n] EXCEPT !.end = now, !.status = code]
<1>1. n \in 1..Len(log) /\ log[n] \in Attempt
  BY DEF TypeInv
<1>2. /\ a \in Attempt
      /\ a.deadline = log[n].deadline
      /\ a.status = code
  BY <1>1, Zenon DEF TypeInv, Attempt
<1>3. log' = [log EXCEPT ![n] = a]
  BY <1>1 DEF TypeInv
<1> HIDE DEF a
<1>4. QED
  BY <1>1, <1>2, <1>3 DEF TypeInv
-----------------------------------------------------------------------------
(* The steps *)

\* The first attempt of a Write preserves the invariant.
LEMMA WriteInv ==
  ASSUME ClientInv, Write
  PROVE  ClientInv'
<1> DEFINE d == {now + t : t \in timeout}
<1>1. /\ phase = "idle" /\ type = "NORMAL_RPC"
      /\ writes < MaxWrites /\ writes' = writes + 1
      /\ began' = now /\ now' = now
      /\ deadline' = d /\ failed' = 0
      /\ WriteImpl(<<>>, ResetContext(d))
      /\ UNCHANGED <<type, timeout, strategy, stream, returned>>
  BY DEF Write, config
<1>2. d \in SUBSET Nat
  BY DeadlineType DEF ClientInv, TypeInv
<1> HIDE DEF d
<1>3. ResetContext(d) \in Context /\ ResetContext(d).used = FALSE
      /\ ResetContext(d).deadline = d
  BY <1>2 DEF ResetContext, Context
<1>4. <<>> \in Seq(Attempt) /\ Len(<<>>) = 0 /\ now \in Nat
  BY DEF ClientInv, TypeInv
<1>5. /\ phase' = "call"
      /\ log' \in Seq(Attempt) /\ Len(log') = 1
      /\ log'[1].deadline = d
      /\ context' \in Context
      /\ fault' = "none"
  <2>1. /\ phase' = "call"
        /\ log' \in Seq(Attempt) /\ Len(log') = Len(<<>>) + 1
        /\ log'[Len(log')].deadline = d
        /\ context' \in Context
        /\ fault' = "none"
    BY <1>1, <1>3, <1>4, WriteImplType, Zenon
  <2>2. Len(log') = 1
    BY <2>1
  <2>3. QED
    BY <2>1, <2>2, Zenon
<1>6. TypeInv'
  BY <1>1, <1>2, <1>5, ClientAssumption, RetryAssumption DEF ClientInv, TypeInv
<1>7. DeadlineInv'
  <2>1. {began' + t : t \in timeout'} = d
    BY <1>1 DEF d
  <2>2. QED
    BY <1>1, <1>5, <2>1 DEF DeadlineInv, OneDeadlinePerWrite
<1>8. ContextInv'
  BY <1>1, <1>5 DEF ContextInv
<1>9. AttemptInv'
  <2>1. MaxAttempts \in Nat \ {0}
    BY ClientAssumption
  <2>2. QED
    BY <1>1, <1>5, <2>1 DEF AttemptInv
<1>10. QED
  BY <1>6, <1>7, <1>8, <1>9 DEF ClientInv

\* A retry preserves the invariant.
LEMMA WakeUpInv ==
  ASSUME ClientInv, WakeUp
  PROVE  ClientInv'
<1>1. /\ phase = "sleep"
      /\ WriteImpl(log, ResetContext(deadline))
      /\ UNCHANGED <<type, timeout, strategy, now, began, deadline, failed, stream,
                    returned, writes>>
  BY DEF WakeUp, config
<1>2. ResetContext(deadline) \in Context /\ ResetContext(deadline).used = FALSE
      /\ ResetContext(deadline).deadline = deadline
  BY DEF ClientInv, TypeInv, ResetContext, Context
<1>3. log \in Seq(Attempt) /\ now \in Nat
  BY DEF ClientInv, TypeInv
<1>4. /\ phase' = "call"
      /\ log' \in Seq(Attempt)
      /\ Len(log') = Len(log) + 1
      /\ \A i \in 1..Len(log) : log'[i] = log[i]
      /\ log'[Len(log')].deadline = deadline
      /\ context' \in Context
      /\ fault' = "none"
  BY <1>1, <1>2, <1>3, WriteImplType, Zenon
<1>5. TypeInv'
  BY <1>1, <1>4 DEF ClientInv, TypeInv
<1>6. DeadlineInv'
  <2> DEFINE d == {began + t : t \in timeout}
  <2>1. {began' + t : t \in timeout'} = d
    BY <1>1
  <2>2. deadline = d /\ \A i \in 1..Len(log) : log[i].deadline = d
    BY <1>1, <1>3 DEF ClientInv, DeadlineInv, OneDeadlinePerWrite
  <2> HIDE DEF d
  <2>3. \A i \in 1..Len(log') : log'[i].deadline = d
    BY <1>3, <1>4, <2>2
  <2>4. DOMAIN log' = 1..Len(log')
    BY <1>4
  <2>5. QED
    BY <1>1, <2>1, <2>2, <2>3, <2>4 DEF DeadlineInv, OneDeadlinePerWrite
<1>7. ContextInv'
  BY <1>1, <1>4 DEF ClientInv, ContextInv
<1>8. AttemptInv'
  <2>1. /\ Len(log) = failed /\ failed \in Nat
        /\ \A i \in 1..failed : Recoverable(log[i].status)
        /\ strategy = "nullptr" => failed = 0
        /\ strategy = "limited" => failed < MaxAttempts
    BY <1>1 DEF ClientInv, TypeInv, AttemptInv
  <2>2. \A i \in 1..failed : log'[i] = log[i]
    BY <1>4, <2>1
  <2>3. type' = "NORMAL_RPC"
    BY <1>1 DEF ClientInv, ContextInv
  <2>4. QED
    BY <1>1, <1>4, <2>1, <2>2, <2>3 DEF AttemptInv, Recoverable
<1>9. QED
  BY <1>5, <1>6, <1>7, <1>8 DEF ClientInv

\* The end of an attempt preserves the invariant.
LEMMA CallReturnsInv ==
  ASSUME ClientInv, NEW code \in Code \cup {"OK"}, CallReturns(code)
  PROVE  ClientInv'
<1>1. /\ phase = "call"
      /\ code = "OK" \/ failed < MaxFailures
      /\ log' = [log EXCEPT ![Len(log)] = [@ EXCEPT !.end = now, !.status = code]]
      /\ RetryWithStrategy(code)
      /\ UNCHANGED <<type, timeout, strategy, now, began, deadline, context, stream,
                    writes, fault>>
  BY DEF CallReturns, config
<1>2. /\ TypeInv /\ log \in Seq(Attempt) /\ failed \in 0..MaxFailures
      /\ MaxFailures \in Nat /\ strategy \in Strategies
  BY RetryAssumption DEF ClientInv, TypeInv
<1>3. /\ Len(log) = failed + 1
      /\ \A i \in 1..failed : Recoverable(log[i].status)
      /\ strategy = "nullptr" => failed = 0
      /\ strategy = "limited" => failed < MaxAttempts
  BY <1>1 DEF ClientInv, AttemptInv
<1>4. log # <<>>
  BY <1>2, <1>3
<1>5. /\ log' \in Seq(Attempt)
      /\ Len(log') = failed + 1
      /\ \A i \in 1..(failed + 1) : log'[i].deadline = log[i].deadline
      /\ \A i \in 1..failed : log'[i] = log[i]
      /\ log'[failed + 1].status = code
  <2>1. Len(log) - 1 = failed
    BY <1>2, <1>3
  <2>2. QED
    BY <1>1, <1>2, <1>3, <1>4, <2>1, CallReturnsLog, Zenon
\* The loop either returns, or goes to sleep after a failure that its strategy
\* lets it retry.
<1>6. \/ /\ code = "OK" /\ phase' = "idle" /\ returned' = TRUE
         /\ failed' = failed
      \/ /\ code # "OK" /\ phase' = "idle" /\ returned' = FALSE
         /\ strategy = "nullptr" /\ failed' = failed
      \/ /\ code # "OK" /\ phase' = "idle" /\ returned' = FALSE
         /\ failed' = failed + 1
         /\ strategy \in {"limited", "codes"}
         /\ strategy = "limited" => ~(failed + 1 < MaxAttempts)
         /\ strategy = "codes" => code \in UnrecoverableCodes
      \/ /\ code # "OK" /\ phase' = "sleep" /\ returned' = returned
         /\ failed' = failed + 1
         /\ strategy # "nullptr"
         /\ Recoverable(code)
         /\ strategy = "limited" => failed + 1 < MaxAttempts
  <2>1. CASE code = "OK"
    BY <1>1, <2>1 DEF RetryWithStrategy, Return
  <2>2. CASE code # "OK" /\ RetryStrategy = {}
    <3>1. strategy \in {"nullptr", "limited", "unlimited", "codes"}
      BY <1>2, ClientAssumption
    <3>2. strategy = "nullptr"
      BY <2>2, <3>1 DEF RetryStrategy
    <3>3. QED
      BY <1>1, <2>2, <3>2 DEF RetryWithStrategy, Return
  <2>3. ASSUME code # "OK", NEW r \in RetryStrategy, failed' = failed + 1,
               \/ \E delay \in r[failed'][code] : phase' = "sleep" /\ UNCHANGED returned
               \/ r[failed'][code] = {} /\ Return(FALSE)
        PROVE  <1>6!2 \/ <1>6!3 \/ <1>6!4
    <3>1. failed + 1 \in Failures /\ code \in Code
      BY <1>1, <1>2, <2>3 DEF Failures
    <3>2. QED
      BY <1>2, <2>3, <3>1, StrategyEnds DEF Return
  <2>4. QED
    BY <1>1, <2>1, <2>2, <2>3, Zenon DEF RetryWithStrategy
<1>7. TypeInv'
  <2>1. phase' \in {"idle", "call", "sleep"} /\ returned' \in BOOLEAN
    BY <1>2, <1>6, Zenon DEF TypeInv
  <2>2. failed' \in 0..MaxFailures
    BY <1>1, <1>2, <1>6
  <2>3. QED
    BY <1>1, <1>2, <1>5, <2>1, <2>2, Zenon DEF TypeInv
<1>8. DeadlineInv'
  <2>1. DOMAIN log = 1..(failed + 1) /\ DOMAIN log' = 1..(failed + 1)
    BY <1>2, <1>3, <1>5
  <2>2. QED
    BY <1>1, <1>5, <1>6, <2>1 DEF ClientInv, DeadlineInv, OneDeadlinePerWrite
<1>9. ContextInv'
  <2>1. type = "NORMAL_RPC" /\ fault = "none"
    BY <1>1 DEF ClientInv, ContextInv
  <2>2. QED
    BY <1>1, <2>1 DEF ContextInv
<1>10. AttemptInv'
  <2>1. \A i \in 1..failed : Recoverable(log'[i].status)
    BY <1>3, <1>5
  <2>2. NoRetryInVain'
    BY <1>1, <1>2, <1>5, <2>1 DEF NoRetryInVain, Recoverable
  <2>3. CASE phase' = "idle"
    <3>1. log' # <<>> /\ log'[Len(log')].status = code /\ Len(log') = failed + 1
      BY <1>2, <1>5
    <3>2. MaxAttempts \in Nat
      BY ClientAssumption
    <3>3. ResultIsJustified'
      BY <1>1, <1>2, <1>3, <1>6, <2>2, <2>3, <3>1, <3>2 DEF ResultIsJustified
    <3>4. QED
      BY <1>1, <2>3, <3>3 DEF AttemptInv, ClientInv, ContextInv
  <2>4. CASE phase' = "sleep"
    <3>1. \A i \in 1..(failed + 1) : Recoverable(log'[i].status)
      BY <1>2, <1>5, <1>6, <2>1, <2>4
    <3>2. QED
      BY <1>1, <1>2, <1>5, <1>6, <2>4, <3>1
         DEF AttemptInv, Recoverable, ClientInv, ContextInv
  <2>5. QED
    BY <1>6, <2>3, <2>4
<1>11. QED
  BY <1>7, <1>8, <1>9, <1>10 DEF ClientInv

\* The operations of a stream preserve the invariant.
LEMMA StreamInv ==
  ASSUME ClientInv, StreamWrite \/ StreamOperation
  PROVE  ClientInv'
<1>1. /\ type # "NORMAL_RPC" /\ fault = "none"
      /\ UNCHANGED <<type, timeout, strategy, now, phase, began, deadline, failed, log>>
      /\ \/ writes < MaxWrites /\ writes' = writes + 1
         \/ writes' = writes
      /\ returned' \in {returned, TRUE}
  BY Zenon DEF StreamWrite, StreamOperation, config
<1>2. phase = "idle" /\ phase' = "idle"
  BY <1>1 DEF ClientInv, TypeInv, ContextInv
<1>3. /\ type \in RpcType /\ context \in Context
      /\ stream \in BOOLEAN /\ writes \in Nat
  BY ClientAssumption DEF ClientInv, TypeInv
<1>4. /\ type # "SERVER_STREAMING" => fault = "none" /\ (context.used <=> stream)
      /\ type = "SERVER_STREAMING" =>
           \/ writes = 0 /\ ~stream /\ ~context.used
           \/ writes = 1 /\ stream /\ context.used
  BY <1>1, <1>3 DEF ClientInv, ContextInv, RpcType
<1>5. ASSUME CreateStream
      PROVE  /\ stream' = TRUE /\ context' \in Context /\ context'.used
             /\ fault' = IF context.used THEN "context used twice" ELSE "none"
  BY <1>3, <1>5, Zenon DEF CreateStream, GiveToGrpc, Context
<1>6. ASSUME InstantiateIfNeeded, fault = "none", context.used <=> stream
      PROVE  /\ stream' \in BOOLEAN /\ context' \in Context
             /\ fault' = "none" /\ (context'.used <=> stream')
  <2>1. CASE stream
    BY <1>3, <1>6, <2>1 DEF InstantiateIfNeeded
  <2>2. CASE ~stream
    BY <1>3, <1>5, <1>6, <2>2, Zenon DEF InstantiateIfNeeded
  <2>3. QED
    BY <2>1, <2>2
<1>7. stream' \in BOOLEAN /\ context' \in Context /\ ContextInv'
  <2>1. CASE type # "SERVER_STREAMING"
    <3>1. InstantiateIfNeeded
      BY <2>1 DEF StreamWrite, StreamOperation
    <3>2. QED
      BY <1>1, <1>2, <1>4, <1>6, <2>1, <3>1 DEF ContextInv
  <2>2. CASE type = "SERVER_STREAMING" /\ StreamWrite
    <3>1. CreateStream /\ writes' = writes + 1
      BY <2>2 DEF StreamWrite
    <3>2. CASE writes = 0 /\ ~context.used
      BY <1>1, <1>2, <1>5, <2>2, <3>1, <3>2 DEF ContextInv
    <3>3. CASE writes = 1 /\ context.used
      <4>1. fault' = "context used twice" /\ stream' = TRUE /\ context' \in Context
        BY <1>5, <3>1, <3>3, Zenon
      <4>2. fault' # "none" /\ writes' > 1
        <5>1. writes = 1 /\ writes' = writes + 1
          BY <3>1, <3>3, Zenon
        <5>2. writes' > 1
          BY <5>1
        <5>3. QED
          BY <4>1, <5>2, Zenon
      <4>3. ContextInv'
        BY <1>1, <1>2, <2>2, <4>2 DEF ContextInv
      <4>4. QED
        BY <4>1, <4>3, Zenon
    <3>4. QED
      BY <1>4, <2>2, <3>2, <3>3
  <2>3. CASE type = "SERVER_STREAMING" /\ StreamOperation
    <3>1. /\ fault' = IF stream THEN "none" ELSE "CHECK(client_reader_)"
          /\ UNCHANGED <<stream, context, writes>>
      BY <2>3 DEF StreamOperation
    <3>2. QED
      BY <1>1, <1>2, <1>3, <1>4, <2>3, <3>1 DEF ContextInv
  <2>4. QED
    BY <2>1, <2>2, <2>3
<1>8. TypeInv'
  <2>1. returned' \in BOOLEAN
    BY <1>1, Zenon DEF ClientInv, TypeInv
  <2>2. writes' \in 0..MaxWrites
    BY <1>1, ClientAssumption DEF ClientInv, TypeInv
  <2>3. QED
    BY <1>1, <1>7, <2>1, <2>2, Zenon DEF ClientInv, TypeInv
<1>9. DeadlineInv'
  BY <1>1 DEF ClientInv, DeadlineInv, OneDeadlinePerWrite
<1>10. AttemptInv'
  <2>1. log = <<>> /\ log' = <<>>
    BY <1>1 DEF ClientInv, AttemptInv
  <2>2. QED
    BY <1>2, <2>1 DEF AttemptInv, ResultIsJustified, NoRetryInVain
<1>11. QED
  BY <1>7, <1>8, <1>9, <1>10 DEF ClientInv

\* The passing of time preserves the invariant.
LEMMA TickInv ==
  ASSUME ClientInv, Tick
  PROVE  ClientInv'
<1>1. /\ now' = now + 1
      /\ UNCHANGED <<type, timeout, strategy, phase, began, deadline, context, failed,
                    stream, returned, writes, log, fault>>
  BY DEF Tick, config
<1>2. now' \in Nat /\ began' \in 0..now'
  BY <1>1 DEF ClientInv, TypeInv
<1>3. TypeInv'
  BY <1>1, <1>2, Zenon DEF ClientInv, TypeInv
<1>4. DeadlineInv' /\ ContextInv'
  BY <1>1 DEF ClientInv, DeadlineInv, OneDeadlinePerWrite, ContextInv
<1>5. AttemptInv'
  BY <1>1 DEF ClientInv, AttemptInv, Recoverable, ResultIsJustified, NoRetryInVain
<1>6. QED
  BY <1>3, <1>4, <1>5 DEF ClientInv

-----------------------------------------------------------------------------
(* The steps, and the time they take *)

\* The first attempt of a Write begins when Write is called.
LEMMA WriteTime ==
  ASSUME ClientInv, ClientInv', TimeInv, Write
  PROVE  TimeInv'
<1>1. /\ phase' = "call" /\ began' = now /\ now' = now /\ failed' = 0
      /\ wake' = wake /\ timeout' = timeout
      /\ context'.deadline = deadline'
  BY DEF Write, WriteImpl, ResetContext, GiveToGrpc, config
<1>2. Len(log') = 1 /\ now \in Nat
  BY <1>1 DEF ClientInv, TypeInv, AttemptInv
<1>3. TotalDelay[0] = 0 /\ MaxAttempts \in Nat \ {0}
  BY TotalDelayIsSum, ClientAssumption
<1>4. \A t \in timeout : t \in Nat
  BY ClientAssumption DEF ClientInv, TypeInv
<1>5. \A t \in timeout : now <= now + t + TotalDelay[0]
  BY <1>2, <1>3, <1>4
<1>6. QED
  BY <1>1, <1>2, <1>3, <1>5 DEF TimeInv

\* A retry begins when the delay is over.
LEMMA WakeUpTime ==
  ASSUME ClientInv, TimeInv, WakeUp
  PROVE  TimeInv'
<1>1. /\ phase = "sleep" /\ phase' = "call" /\ now >= wake
      /\ UNCHANGED <<timeout, strategy, now, began, deadline, failed, wake>>
      /\ context'.deadline = deadline'
      /\ log' = Append(log, [begin |-> now, end |-> now, deadline |-> deadline,
                             status |-> "pending"])
  BY DEF WakeUp, WriteImpl, ResetContext, GiveToGrpc, config
<1>2. /\ now = wake /\ wake \in Nat /\ failed \in Nat
      /\ log \in Seq(Attempt) /\ Len(log) = failed
  BY <1>1 DEF ClientInv, TypeInv, AttemptInv, TimeInv
<1>3. /\ Len(log') = failed + 1
      /\ \A i \in 1..failed : log'[i] = log[i]
      /\ log'[failed + 1].begin = now
  BY <1>1, <1>2
<1>4. ASSUME strategy = "limited"
      PROVE  /\ Len(log') <= MaxAttempts
             /\ \A i \in 2..Len(log') : log'[i].begin = log'[i - 1].end + Delay(i - 1)
             /\ \A t \in timeout : now <= began + t + TotalDelay[failed]
  <2>1. /\ failed < MaxAttempts
        /\ \A i \in 2..failed : log[i].begin = log[i - 1].end + Delay(i - 1)
        /\ now = log[failed].end + Delay(failed)
        /\ \A t \in timeout : now <= began + t + TotalDelay[failed]
    BY <1>1, <1>2, <1>4 DEF ClientInv, AttemptInv, TimeInv
  <2>2. Len(log') <= MaxAttempts
    BY <1>2, <1>3, <2>1, ClientAssumption
  <2>3. ASSUME NEW i \in 2..Len(log')
        PROVE  log'[i].begin = log'[i - 1].end + Delay(i - 1)
    <3>1. i - 1 \in 1..failed /\ log'[i - 1] = log[i - 1]
      BY <1>2, <1>3
    <3>2. CASE i = failed + 1
      <4>1. i - 1 = failed
        BY <1>2, <3>2
      <4>2. QED
        BY <1>3, <2>1, <3>1, <3>2, <4>1
    <3>3. CASE i # failed + 1
      <4>1. i \in 2..failed /\ log'[i] = log[i]
        BY <1>2, <1>3, <3>3
      <4>2. QED
        BY <2>1, <3>1, <4>1
    <3>4. QED
      BY <3>2, <3>3
  <2>4. QED
    BY <2>1, <2>2, <2>3
<1>5. QED
  BY <1>1, <1>2, <1>4 DEF TimeInv

\* A failure starts the delay.
LEMMA CallReturnsTime ==
  ASSUME ClientInv, TimeInv, NEW code \in Code \cup {"OK"}, CallReturns(code)
  PROVE  TimeInv'
<1>1. /\ phase = "call"
      /\ code = "OK" \/ failed < MaxFailures
      /\ log' = [log EXCEPT ![Len(log)] = [@ EXCEPT !.end = now, !.status = code]]
      /\ UNCHANGED <<timeout, strategy, now, began, deadline, context>>
  BY DEF CallReturns, config
<1>2. /\ log \in Seq(Attempt) /\ failed \in 0..MaxFailures /\ Len(log) = failed + 1
      /\ MaxFailures \in Nat /\ strategy \in Strategies /\ now \in Nat /\ began \in Nat
      /\ wake \in Nat
  BY <1>1, RetryAssumption DEF ClientInv, TypeInv, AttemptInv, TimeInv
<1>3. /\ Len(log') = failed + 1
      /\ \A i \in 1..(failed + 1) : log'[i].begin = log[i].begin
      /\ \A i \in 1..failed : log'[i] = log[i]
      /\ log'[failed + 1].end = now
  <2> DEFINE n == failed + 1
             a == [log[n] EXCEPT !.end = now, !.status = code]
  <2>1. n \in 1..Len(log) /\ log[n] \in Attempt
    BY <1>2
  <2>2. a.begin = log[n].begin /\ a.end = now
    BY <2>1 DEF Attempt
  <2>3. log' = [log EXCEPT ![n] = a]
    BY <1>1, <1>2, <2>1
  <2> HIDE DEF a
  <2>4. QED
    BY <1>2, <2>1, <2>2, <2>3
<1>4. \/ phase' = "idle" /\ wake' = wake
      \/ \E delay : /\ phase' = "sleep" /\ failed' = failed + 1 /\ wake' = now + delay
                    /\ delay \in Nat
                    /\ strategy = "limited" => delay = Delay(failed + 1)
  <2>1. RetryWithStrategy(code)
    BY DEF CallReturns
  <2>2. CASE \E r \in RetryStrategy : /\ code # "OK"
                                      /\ failed' = failed + 1
                                      /\ \E delay \in r[failed'][code] :
                                           phase' = "sleep" /\ wake' = now + delay
    <3>1. PICK r \in RetryStrategy : /\ code # "OK"
                                     /\ failed' = failed + 1
                                     /\ \E delay \in r[failed'][code] :
                                          phase' = "sleep" /\ wake' = now + delay
      BY <2>2
    <3>2. PICK delay \in r[failed'][code] : phase' = "sleep" /\ wake' = now + delay
      BY <3>1
    <3>3. failed + 1 \in Failures /\ code \in Code
      BY <1>1, <1>2, <3>1 DEF Failures
    <3>4. delay \in Nat /\ (strategy = "limited" => delay = Delay(failed + 1))
      BY <1>2, <3>1, <3>2, <3>3, StrategyDelays
    <3>5. QED
      BY <3>1, <3>2, <3>4
  <2>3. CASE phase' = "idle" /\ wake' = wake
    BY <2>3
  <2>4. QED
    BY <2>1, <2>2, <2>3, Zenon DEF RetryWithStrategy, Return
<1>5. /\ wake' \in Nat
      /\ phase' = "sleep" => now <= wake'
      /\ phase' \in {"idle", "sleep"}
      /\ context.deadline = deadline
  BY <1>1, <1>2, <1>4 DEF TimeInv
<1>6. ASSUME strategy = "limited"
      PROVE  /\ Len(log') <= MaxAttempts
             /\ \A i \in 2..Len(log') : log'[i].begin = log'[i - 1].end + Delay(i - 1)
             /\ phase' = "sleep" => wake' = log'[failed'].end + Delay(failed')
             /\ \A t \in timeout : phase' = "sleep" =>
                  wake' <= began + t + TotalDelay[failed']
  <2>1. /\ Len(log) <= MaxAttempts
        /\ \A i \in 2..(failed + 1) : log[i].begin = log[i - 1].end + Delay(i - 1)
        /\ \A t \in timeout : now <= began + t + TotalDelay[failed]
    BY <1>1, <1>2, <1>6 DEF TimeInv
  <2>2. ASSUME NEW i \in 2..Len(log')
        PROVE  log'[i].begin = log'[i - 1].end + Delay(i - 1)
    <3>1. i \in 2..(failed + 1) /\ i - 1 \in 1..failed /\ i \in 1..(failed + 1)
      BY <1>2, <1>3
    <3>2. QED
      BY <1>3, <2>1, <3>1
  <2>3. ASSUME phase' = "sleep"
        PROVE  /\ wake' = log'[failed'].end + Delay(failed')
               /\ \A t \in timeout : wake' <= began + t + TotalDelay[failed']
    <3>1. failed' = failed + 1 /\ wake' = now + Delay(failed + 1)
      BY <1>4, <1>6, <2>3
    <3>2. /\ TotalDelay[failed + 1] = TotalDelay[failed] + Delay(failed + 1)
          /\ TotalDelay[failed] \in Nat /\ Delay(failed + 1) \in Nat
      <4>1. failed \in Nat /\ failed + 1 \in Nat \ {0}
        BY <1>2
      <4>2. QED
        BY <4>1, TotalDelayIsSum, DelayIsExponential, Zenon
    <3>3. \A t \in timeout : t \in Nat
      BY ClientAssumption DEF ClientInv, TypeInv
    <3>4. \A t \in timeout : now + Delay(failed + 1) <= began + t + TotalDelay[failed + 1]
      BY <1>2, <2>1, <3>2, <3>3
    <3>5. QED
      BY <1>3, <3>1, <3>4
  <2>4. QED
    BY <1>2, <1>3, <2>1, <2>2, <2>3
<1>7. QED
  BY <1>1, <1>5, <1>6 DEF TimeInv

\* Time passes in a call until the deadline is over, and in a sleep until its end.
LEMMA TickTime ==
  ASSUME ClientInv, TimeInv, Tick
  PROVE  TimeInv'
<1>1. /\ now' = now + 1
      /\ UNCHANGED <<timeout, strategy, phase, began, deadline, context, failed,
                     wake, log>>
  BY DEF Tick, config
<1>2. now \in Nat /\ began \in Nat /\ wake \in Nat /\ failed \in Nat
  BY DEF ClientInv, TypeInv, TimeInv
<1>3. phase = "sleep" => now + 1 <= wake
  <2>1. phase = "sleep" => now < wake
    BY DEF Tick
  <2>2. QED
    BY <1>2, <2>1
<1>4. ASSUME phase = "call", NEW t \in timeout
      PROVE  now + 1 <= began + t + TotalDelay[failed]
  <2>1. began + t \in context.deadline
    BY <1>4 DEF ClientInv, DeadlineInv, TimeInv
  <2>2. context.deadline # {}
    BY <2>1
  <2>3. ~DeadlineIsOver
    BY <1>4, <2>2 DEF Tick
  <2>4. ~(now >= began + t)
    BY <2>1, <2>3 DEF DeadlineIsOver
  <2>5. t \in Nat /\ TotalDelay[failed] \in Nat
    BY <1>2, ClientAssumption, TotalDelayIsSum, Zenon DEF ClientInv, TypeInv
  <2>6. QED
    BY <1>2, <2>4, <2>5
<1>5. QED
  BY <1>1, <1>2, <1>3, <1>4 DEF TimeInv

\* A stream takes no part in this.
LEMMA StreamTime ==
  ASSUME ClientInv, TimeInv, StreamWrite \/ StreamOperation
  PROVE  TimeInv'
<1>1. /\ type # "NORMAL_RPC"
      /\ UNCHANGED <<timeout, strategy, now, phase, began, deadline, failed, wake, log>>
  BY DEF StreamWrite, StreamOperation, config
<1>2. phase = "idle"
  BY <1>1 DEF ClientInv, TypeInv, ContextInv
<1>3. QED
  BY <1>1, <1>2 DEF TimeInv

-----------------------------------------------------------------------------
(* The theorems *)

\* ClientInv is an inductive invariant of the client.
THEOREM ClientInvariant == Spec => []ClientInv
<1>1. Init => ClientInv
  <2> SUFFICES ASSUME Init PROVE ClientInv
    OBVIOUS
  <2>1. TypeInv
    <3>1. /\ now \in Nat /\ began \in 0..now
          /\ failed \in 0..MaxFailures /\ writes \in 0..MaxWrites
      BY ClientAssumption, RetryAssumption DEF Init
    <3>2. context \in Context /\ deadline \in SUBSET Nat /\ log \in Seq(Attempt)
      BY DEF Init, Context
    <3>3. QED
      BY <3>1, <3>2, Zenon DEF Init, TypeInv
  <2>2. DeadlineInv /\ ContextInv
    BY DEF Init, DeadlineInv, OneDeadlinePerWrite, ContextInv
  <2>3. AttemptInv
    BY DEF Init, AttemptInv, ResultIsJustified, NoRetryInVain
  <2>4. QED
    BY <2>1, <2>2, <2>3 DEF ClientInv
<1>2. ClientInv /\ [Next]_vars => ClientInv'
  <2> SUFFICES ASSUME ClientInv, [Next]_vars PROVE ClientInv'
    OBVIOUS
  <2>1. CASE UNCHANGED vars
    BY <2>1 DEF vars, config, ClientInv, TypeInv, DeadlineInv, OneDeadlinePerWrite,
                ContextInv, AttemptInv, Recoverable, ResultIsJustified,
                NoRetryInVain
  <2>2. QED
    BY <2>1, WriteInv, WakeUpInv, CallReturnsInv, StreamInv, TickInv, Zenon DEF Next
<1>3. QED
  BY <1>1, <1>2, PTL DEF Spec

\* TimeInv holds as well.
THEOREM TimeInvariant == Spec => []TimeInv
<1>1. Init => TimeInv
  BY ClientAssumption DEF Init, TimeInv
<1>2. ClientInv /\ ClientInv' /\ TimeInv /\ [Next]_vars => TimeInv'
  <2> SUFFICES ASSUME ClientInv, ClientInv', TimeInv, [Next]_vars PROVE TimeInv'
    OBVIOUS
  <2>1. CASE UNCHANGED vars
    BY <2>1 DEF vars, config, TimeInv
  <2>2. QED
    BY <2>1, WriteTime, WakeUpTime, CallReturnsTime, StreamTime, TickTime, Zenon DEF Next
<1>3. QED
  BY <1>1, <1>2, ClientInvariant, PTL DEF Spec

\* Every variable of a client keeps its type.
THEOREM ClientTypes == Spec => []TypeOK
<1> DEFINE FaultOK == fault \in {"none", "context used twice", "CHECK(client_reader_)"}
<1>1. Init => FaultOK
  BY DEF Init
<1>2. FaultOK /\ [Next]_vars => FaultOK'
  BY Zenon DEF vars, Next, Write, CallReturns, WakeUp, Tick, StreamWrite, StreamOperation,
         WriteImpl, GiveToGrpc, CreateStream, InstantiateIfNeeded
<1>3. ClientInv /\ TimeInv /\ FaultOK => TypeOK
  BY Zenon DEF ClientInv, TypeInv, TimeInv, TypeOK
<1>4. QED
  BY <1>1, <1>2, <1>3, ClientInvariant, TimeInvariant, PTL DEF Spec

\* With the limited strategy there are at most MaxAttempts attempts, the first
\* retry comes MinDelay after the first failure, and every other one
\* BackoffFactor times as long after the failure before it as the one before
\* (CreateLimitedBackoffStrategy, RetryWithStrategy).
THEOREM BackoffsAreExponential == Spec => []BackoffIsExponential
<1>1. ClientInv /\ TimeInv => BackoffIsExponential
  <2> SUFFICES ASSUME ClientInv, TimeInv, strategy = "limited"
               PROVE  /\ Len(log) <= MaxAttempts
                      /\ \A i \in 2..Len(log) :
                           log[i].begin - log[i - 1].end
                             = IF i = 2 THEN MinDelay
                               ELSE BackoffFactor
                                      * (log[i - 1].begin - log[(i - 1) - 1].end)
    BY Zenon DEF BackoffIsExponential
  <2>1. log \in Seq(Attempt) /\ Len(log) \in Nat /\ Len(log) <= MaxAttempts
    BY DEF ClientInv, TypeInv, TimeInv
  <2>2. ASSUME NEW i \in 2..Len(log)
        PROVE  log[i].begin - log[i - 1].end = Delay(i - 1)
    <3>1. log[i].begin = log[i - 1].end + Delay(i - 1)
      BY DEF TimeInv
    <3>2. log[i - 1] \in Attempt /\ i - 1 \in Nat \ {0}
      BY <2>1
    <3>3. log[i - 1].end \in Nat /\ Delay(i - 1) \in Nat
      BY <3>2, DelayIsExponential, Zenon DEF Attempt
    <3>4. QED
      BY <3>1, <3>3
  <2>3. ASSUME NEW i \in 2..Len(log)
        PROVE  log[i].begin - log[i - 1].end
                 = IF i = 2 THEN MinDelay
                   ELSE BackoffFactor * (log[i - 1].begin - log[(i - 1) - 1].end)
    <3>1. CASE i = 2
      <4>1. i - 1 = 1
        BY <3>1
      <4>2. log[i].begin - log[i - 1].end = Delay(i - 1)
        BY <2>2
      <4>3. QED
        BY <3>1, <4>1, <4>2, DelayIsExponential, Zenon
    <3>2. CASE i # 2
      <4>1. /\ i - 1 \in 2..Len(log)
            /\ (i - 1) - 1 \in Nat \ {0}
            /\ ((i - 1) - 1) + 1 = i - 1
        BY <2>1, <3>2
      <4>2. Delay(i - 1) = BackoffFactor * Delay((i - 1) - 1)
        BY <4>1, DelayIsExponential
      <4>3. /\ log[i].begin - log[i - 1].end = Delay(i - 1)
            /\ log[i - 1].begin - log[(i - 1) - 1].end = Delay((i - 1) - 1)
        BY <2>2, <4>1, Zenon
      <4>4. QED
        BY <3>2, <4>2, <4>3, Zenon
    <3>3. QED
      BY <3>1, <3>2
  <2>4. QED
    BY <2>1, <2>3, Zenon
<1>2. QED
  BY <1>1, ClientInvariant, TimeInvariant, PTL

\* A Write with a timeout and the limited strategy takes no longer than the
\* timeout and all the delays of the strategy (RetryWithStrategy, ResetContext).
THEOREM WritesTakeBoundedTime == Spec => []WriteTakesBoundedTime
<1>1. ClientInv /\ TimeInv => WriteTakesBoundedTime
  <2> SUFFICES ASSUME ClientInv, TimeInv, strategy = "limited", phase # "idle",
                      NEW t \in timeout
               PROVE  now <= began + t + TotalDelay[MaxAttempts - 1]
    BY Zenon DEF WriteTakesBoundedTime
  <2>1. /\ failed \in Nat /\ now \in Nat /\ began \in Nat /\ t \in Nat /\ wake \in Nat
        /\ phase \in {"call", "sleep"}
    BY ClientAssumption DEF ClientInv, TypeInv, TimeInv
  <2>2. now <= began + t + TotalDelay[failed]
    <3>1. CASE phase = "call"
      BY <3>1 DEF TimeInv
    <3>2. CASE phase = "sleep"
      <4>1. now <= wake /\ wake <= began + t + TotalDelay[failed]
        BY <3>2 DEF TimeInv
      <4>2. TotalDelay[failed] \in Nat
        BY <2>1, TotalDelayIsSum
      <4>3. QED
        BY <2>1, <4>1, <4>2
    <3>3. QED
      BY <2>1, <3>1, <3>2
  <2>3. failed < MaxAttempts /\ MaxAttempts - 1 \in Nat /\ MaxAttempts \in Nat
    BY ClientAssumption DEF ClientInv, AttemptInv
  <2>4. /\ TotalDelay[failed] \in Nat /\ TotalDelay[MaxAttempts - 1] \in Nat
        /\ TotalDelay[failed] <= TotalDelay[MaxAttempts - 1]
    BY <2>1, <2>3, TotalDelayIsSum, TotalDelayGrows
  <2>5. QED
    BY <2>1, <2>2, <2>4
<1>2. QED
  BY <1>1, ClientInvariant, TimeInvariant, PTL

\* All attempts of a Write share one deadline, however many there are (Write,
\* RetryWithStrategy).
THEOREM RetriesShareTheDeadline == Spec => []OneDeadlinePerWrite
<1>1. ClientInv => OneDeadlinePerWrite
  BY DEF ClientInv, DeadlineInv
<1>2. QED
  BY <1>1, ClientInvariant, PTL

\* No client gives gRPC a context twice, except a server stream that is used
\* against its comment (ResetContext, InstantiateClientReader).
THEOREM ContextsAreNotReused == Spec => []ContextsAreUsedOnce
<1>1. ClientInv => ContextsAreUsedOnce
  BY DEF ClientInv, TypeInv, RpcType, ContextInv, ContextsAreUsedOnce
<1>2. QED
  BY <1>1, ClientInvariant, PTL

\* Write retries as its strategy says, and returns what its last attempt and its
\* strategy justify (RetryWithStrategy).
THEOREM ResultsAreJustified == Spec => []ResultIsJustified
<1>1. ClientInv => ResultIsJustified
  <2> SUFFICES ASSUME ClientInv PROVE ResultIsJustified
    OBVIOUS
  <2>1. CASE phase = "idle"
    BY <2>1 DEF ClientInv, AttemptInv
  <2>2. CASE phase # "idle"
    <3>1. /\ Len(log) - 1 <= failed /\ failed \in Nat /\ Len(log) \in Nat
          /\ \A i \in 1..failed : Recoverable(log[i].status)
      BY <2>2 DEF ClientInv, TypeInv, AttemptInv
    <3>2. NoRetryInVain
      BY <3>1 DEF NoRetryInVain, Recoverable
    <3>3. QED
      BY <2>2, <3>2 DEF ResultIsJustified
  <2>3. QED
    BY <2>1, <2>2
<1>2. QED
  BY <1>1, ClientInvariant, PTL
=============================================================================
