------------------------------- MODULE Retry --------------------------------
(***************************************************************************)
(* Retry strategies (retry.cc).  An optional value is a set with at most   *)
(* one element, and a std::function of failed_attempts and a status is a   *)
(* function.  Durations are numbers of ticks, which are coarse enough to   *)
(* hide the rounding of ToSeconds and FromSeconds, and backoff factors are *)
(* natural numbers.                                                        *)
(***************************************************************************)
EXTENDS Naturals

CONSTANTS
  Code,        \* the codes of the statuses that are not OK
  MaxFailures  \* bound: failed attempts of one Write

ASSUME RetryAssumption == MaxFailures \in Nat \ {0} /\ "OK" \notin Code

Failures == 1..MaxFailures

\* Mutant: failed_attempts <= max_attempts.
RetryIndicatorOffByOne(max_attempts) ==
  [failed_attempts \in Failures |-> [code \in Code |-> failed_attempts <= max_attempts]]

CreateLimitedRetryIndicator(max_attempts) ==
  [failed_attempts \in Failures |-> [code \in Code |-> failed_attempts < max_attempts]]

\* Mutant: no code is looked up.
RetryIndicatorIgnoresCodes(unrecoverable_codes) ==
  [failed_attempts \in Failures |-> [code \in Code |-> TRUE]]

\* Without codes it is the overload that has none.
CreateUnlimitedRetryIndicator(unrecoverable_codes) ==
  [failed_attempts \in Failures |-> [code \in Code |-> code \notin unrecoverable_codes]]

\* std::pow, of natural numbers: pow(base)[exponent].
pow(base) == LET power[n \in Nat] == IF n = 0 THEN 1 ELSE base * power[n - 1] IN power

\* Mutant: std::pow(backoff_factor, failed_attempts).
DelayCalculatorOffByOne(min_delay, backoff_factor) ==
  [failed_attempts \in Failures |-> pow(backoff_factor)[failed_attempts] * min_delay]

CreateBackoffDelayCalculator(min_delay, backoff_factor) ==
  [failed_attempts \in Failures |-> pow(backoff_factor)[failed_attempts - 1] * min_delay]

CreateConstantDelayCalculator(delay) == [failed_attempts \in Failures |-> delay]

CreateRetryStrategy(retry_indicator, retry_delay_calculator) ==
  [failed_attempts \in Failures |-> [code \in Code |->
     IF retry_indicator[failed_attempts][code]
     THEN {retry_delay_calculator[failed_attempts]}
     ELSE {}]]

CreateLimitedBackoffStrategy(min_delay, backoff_factor, max_attempts) ==
  CreateRetryStrategy(CreateLimitedRetryIndicator(max_attempts),
                      CreateBackoffDelayCalculator(min_delay, backoff_factor))

CreateUnlimitedConstantDelayStrategy(delay, unrecoverable_codes) ==
  CreateRetryStrategy(CreateUnlimitedRetryIndicator(unrecoverable_codes),
                      CreateConstantDelayCalculator(delay))
=============================================================================
