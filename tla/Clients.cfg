CONSTANTS
  Code <- MCCode
  UnrecoverableCodes <- MCUnrecoverableCodes
  Timeouts <- MCTimeouts
  Strategies = {"nullptr", "limited", "unlimited", "codes"}
  MinDelay = 1
  BackoffFactor = 2
  MaxAttempts = 5
  ConstantDelay = 2
  MaxFailures = 5
  MaxWrites = 2
  MaxWait = 2
SPECIFICATION Spec
INVARIANTS
  TypeOK
  ContextsAreUsedOnce
  OneDeadlinePerWrite
  BackoffIsExponential
  ResultIsJustified
  WriteTakesBoundedTime
PROPERTY
  WriteReturns
CHECK_DEADLOCK FALSE
